---- MODULE Spec2Model ----
(***************************************************************************)
(* The level simulation of causal-oops (src/src/level.rs): the Level       *)
(* struct, its update / undo / redo operations, the push resolution of     *)
(* get_moves, the summon / return bookkeeping and the history ledger.      *)
(*                                                                         *)
(* Conventions.                                                            *)
(*   Option<T>   is a set with at most one element: None = {}, Some(x) =   *)
(*               {x}.                                                      *)
(*   HashMap     is a function; where the code's result depends on the     *)
(*               iteration order of a HashMap or HashSet, the operator     *)
(*               returns the SET of results over all iteration orders.     *)
(*   Vec         is a sequence (1-based here, 0-based in the source).      *)
(*   f32 angles  are counted in quarter turns (0, 1, 2, -1 for 0, pi/2,    *)
(*               pi, -pi/2), the only values Offset::angle produces for    *)
(*               the four unit offsets.                                    *)
(*   panics      are reported in a "panic" field of an operator's result;  *)
(*               an operation that panics aborts the process.              *)
(***************************************************************************)
EXTENDS Integers, Sequences, FiniteSets, TLC

VARIABLES
    width,                  \* Level.width
    height,                 \* Level.height
    tiles,                  \* Level.tiles, row-major
    objects_by_id,          \* Level.objects_by_id
    object_ids_by_coords,   \* Level.object_ids_by_coords
    character_ids,          \* Level.character_ids
    next_object_id,         \* Level.next_object_id
    history,                \* Level.history
    turn,                   \* Level.turn
    status,                 \* "ok", or how the process ended: "panic", "hang"
    lastOp,                 \* the last operation called on the level
    ret,                    \* what that call returned (Option<Change>)
    dropped,                \* history entries the last update truncated
    waited,                 \* whether the last update's actions were all Wait
    state_summoning,        \* ControlState.summoning
    character_actions,      \* CharacterActions: the actions queued for the turn
    sent                    \* the Action event that the last input event sent

vars == <<width, height, tiles, objects_by_id, object_ids_by_coords,
          character_ids, next_object_id, history, turn, status, lastOp, ret,
          dropped, waited, state_summoning, character_actions, sent>>

----------------------------------------------------------------------------
(* Bounds of the model.                                                    *)

\* Longest history explored: update is offered while the history is shorter.
MaxHistory == 3
\* Longest history explored from TeamsMap: update is offered while the
\* history is shorter.
MaxTeamsHistory == 2
\* Longest history explored from LoopMap.
MaxLoopHistory == 1
\* Longest history explored from ContendMap, whose opening takes two turns.
MaxContendHistory == 5
\* Summon is offered while the ids it takes stay within MaxObjectId.
MaxObjectId == 4
\* Most summoners of one turn.
MaxSummoners == 2
\* Pops of the blocking pass's work queue after which it is taken to loop.
MaxPops == 30

----------------------------------------------------------------------------
(* Option, sequences.                                                      *)

None == {}
Some(x) == {x}
IsSome(o) == o # {}
Unwrap(o) == CHOOSE x \in o : TRUE

Range(f) == {f[x] : x \in DOMAIN f}

RECURSIVE SetToSeq(_)
SetToSeq(S) ==
    IF S = {} THEN <<>>
    ELSE LET x == CHOOSE y \in S : TRUE IN <<x>> \o SetToSeq(S \ {x})

\* Every order in which the elements of S can be iterated.
RECURSIVE Perms(_)
Perms(S) ==
    IF S = {} THEN {<<>>}
    ELSE UNION {{<<x>> \o p : p \in Perms(S \ {x})} : x \in S}

----------------------------------------------------------------------------
(* Coords and Offset.                                                      *)

Coords(r, c) == [row |-> r, col |-> c]
Offset(r, c) == [row |-> r, col |-> c]

UP == Offset(-1, 0)
DOWN == Offset(1, 0)
LEFT == Offset(0, -1)
RIGHT == Offset(0, 1)
Offsets == {UP, DOWN, LEFT, RIGHT}

\* Offset::angle, atan2(-row, col), in quarter turns.
Angle(offset) ==
    CASE offset = RIGHT -> 0
      [] offset = UP -> 1
      [] offset = LEFT -> 2
      [] offset = DOWN -> -1

\* impl Ord for Offset: by row, then by col.
OffsetLess(a, b) == a.row < b.row \/ (a.row = b.row /\ a.col < b.col)

NegOffset(o) == Offset(-o.row, -o.col)
MulOffset(k, o) == Offset(k * o.row, k * o.col)
AddOffset(c, o) == Coords(c.row + o.row, c.col + o.col)

----------------------------------------------------------------------------
(* Tiles, colours, characters, objects.                                    *)

Floor(portal_color) == [kind |-> "Floor", portal_color |-> portal_color]
Wall == [kind |-> "Wall"]
Stairs == [kind |-> "Stairs"]

\* CharacterColor::COUNT; a colour is its index 0 .. COUNT - 1.
COUNT == 8

Character(color, sliding, portal_coords) ==
    [color |-> color, sliding |-> sliding, portal_coords |-> portal_coords]

can_summon(character) == character.portal_coords = None
can_return(character) == character.portal_coords # None

CharacterObject(character) == [kind |-> "Character", character |-> character]
WoodenCrate == [kind |-> "WoodenCrate"]
SteelCrate == [kind |-> "SteelCrate"]
StoneBlock == [kind |-> "StoneBlock"]

IsCharacter(object) == object.kind = "Character"

\* Object::weight with a wooden crate as heavy as a steel crate and a steel
\* crate as heavy as a stone block.
weight_one_class_up(object) ==
    CASE object.kind = "Character" -> 1
      [] object.kind = "WoodenCrate" -> 2
      [] object.kind = "SteelCrate" -> 3
      [] object.kind = "StoneBlock" -> 3

weight(object) ==
    CASE object.kind = "Character" -> 1
      [] object.kind = "WoodenCrate" -> 1
      [] object.kind = "SteelCrate" -> 2
      [] object.kind = "StoneBlock" -> 3

LevelObject(id, object, coords, angle) ==
    [id |-> id, object |-> object, coords |-> coords, angle |-> angle]

LevelCharacter(id, character, coords, angle) ==
    [id |-> id, character |-> character, coords |-> coords, angle |-> angle]

\* impl From<&LevelCharacter> for LevelObject
ObjectOfCharacter(lc) ==
    LevelObject(lc.id, CharacterObject(lc.character), lc.coords, lc.angle)

----------------------------------------------------------------------------
(* Actions of the control layer.                                           *)

Wait == [kind |-> "Wait"]
Push(offset) == [kind |-> "Push", offset |-> offset]
Summon(offset) == [kind |-> "Summon", offset |-> offset]
Return == [kind |-> "Return"]

Actions == {Wait, Return} \cup {Push(o) : o \in Offsets}
                          \cup {Summon(o) : o \in Offsets}

----------------------------------------------------------------------------
(* The Level struct and its queries.                                       *)

Level(w, h, t, obi, oibc, cids, nid, hist, trn) ==
    [width |-> w, height |-> h, tiles |-> t, objects_by_id |-> obi,
     object_ids_by_coords |-> oibc, character_ids |-> cids,
     next_object_id |-> nid, history |-> hist, turn |-> trn]

\* The level held by the variables.
Self == Level(width, height, tiles, objects_by_id, object_ids_by_coords,
              character_ids, next_object_id, history, turn)

\* Level::tile_idx. The casts to usize make a negative coordinate a huge
\* index, for which tile_at panics.
tile_idx(L, coords) == coords.row * L.width + coords.col

TileInBounds(L, coords) ==
    /\ coords.row >= 0
    /\ coords.col >= 0
    /\ tile_idx(L, coords) < Len(L.tiles)

tile_at(L, coords) == L.tiles[tile_idx(L, coords) + 1]

set_tile_at(L, coords, tile) ==
    [L EXCEPT !.tiles[tile_idx(L, coords) + 1] = tile]

\* Level::object_at: Option<Object>.
object_at(L, coords) ==
    IF coords \in DOMAIN L.object_ids_by_coords
       /\ L.object_ids_by_coords[coords] \in DOMAIN L.objects_by_id
    THEN Some(L.objects_by_id[L.object_ids_by_coords[coords]].object)
    ELSE None

\* Level::level_character_by_id / character_by_id panic unless id names
\* a character of objects_by_id.
HasCharacter(L, id) ==
    id \in DOMAIN L.objects_by_id /\ IsCharacter(L.objects_by_id[id].object)

level_character_by_id(L, id) ==
    LET o == L.objects_by_id[id]
    IN LevelCharacter(o.id, o.object.character, o.coords, o.angle)

character_by_id(L, id) == L.objects_by_id[id].object.character

GridCells(L) ==
    {Coords(r, c) : r \in 0 .. L.height - 1, c \in 0 .. L.width - 1}

\* impl PartialEq for Level: same width, tiles and object at every cell.
LevelEq(A, B) ==
    /\ A.width = B.width
    /\ A.tiles = B.tiles
    /\ \A coords \in GridCells(A) : object_at(A, coords) = object_at(B, coords)

----------------------------------------------------------------------------
(* Changes.                                                                *)

Returning(returner, linked_id) ==
    [returner |-> returner, linked_id |-> linked_id]

Move(from_coords, to_coords, from_angle, to_angle) ==
    [from_coords |-> from_coords, to_coords |-> to_coords,
     from_angle |-> from_angle, to_angle |-> to_angle]

Summoning(summon, linked_id, portal_color) ==
    [summon |-> summon, linked_id |-> linked_id, portal_color |-> portal_color]

Change(returnings, moves, summonings) ==
    [returnings |-> returnings, moves |-> moves, summonings |-> summonings]

BiChange(forward, reverse) == [forward |-> forward, reverse |-> reverse]

EmptyMap == [x \in {} |-> x]

\* Returning::reverse
ReverseReturning(r) ==
    Summoning(r.returner, r.linked_id, r.returner.character.color)

\* Move::reverse
ReverseMove(mv) ==
    Move(mv.to_coords, mv.from_coords, mv.to_angle, mv.from_angle)

\* Summoning::reverse
ReverseSummoning(s) == Returning(s.summon, s.linked_id)

\* Change::reverse that leaves the moves as they are.
ReverseChangeKeepingMoves(change) ==
    Change([id \in DOMAIN change.summonings |->
                ReverseSummoning(change.summonings[id])],
           change.moves,
           [id \in DOMAIN change.returnings |->
                ReverseReturning(change.returnings[id])])

\* Change::reverse
ReverseChange(change) ==
    Change([id \in DOMAIN change.summonings |->
                ReverseSummoning(change.summonings[id])],
           [id \in DOMAIN change.moves |-> ReverseMove(change.moves[id])],
           [id \in DOMAIN change.returnings |->
                ReverseReturning(change.returnings[id])])

----------------------------------------------------------------------------
(* Mutation of the level. An outcome is [L |-> level, panic |-> BOOLEAN];  *)
(* the operators that iterate a HashMap return the set of outcomes over    *)
(* its iteration orders.                                                   *)

Ok(L) == [L |-> L, panic |-> FALSE]
Panic(L) == [L |-> L, panic |-> TRUE]

Restrict(f, S) == [x \in S |-> f[x]]
Put(f, k, v) == [x \in DOMAIN f \cup {k} |-> IF x = k THEN v ELSE f[x]]

\* Continue each outcome that did not panic with F.
Bind(XS, F(_)) == UNION {IF X.panic THEN {X} ELSE F(X.L) : X \in XS}

\* Level::spawn
spawn(L, level_object) ==
    [L EXCEPT
        !.object_ids_by_coords = Put(@, level_object.coords, level_object.id),
        !.character_ids = IF IsCharacter(level_object.object)
                          THEN @ \cup {level_object.id} ELSE @,
        !.objects_by_id = Put(@, level_object.id, level_object)]

\* remove_at that takes the object out of the coordinate index only.
remove_at_index_only(L, coords) ==
    IF coords \in DOMAIN L.object_ids_by_coords
    THEN [L EXCEPT
            !.object_ids_by_coords = Restrict(@, DOMAIN @ \ {coords})]
    ELSE L

\* Level::remove_at
remove_at(L, coords) ==
    IF coords \in DOMAIN L.object_ids_by_coords
    THEN LET removed_id == L.object_ids_by_coords[coords]
         IN [L EXCEPT
                !.object_ids_by_coords = Restrict(@, DOMAIN @ \ {coords}),
                !.objects_by_id = Restrict(@, DOMAIN @ \ {removed_id}),
                !.character_ids = @ \ {removed_id}]
    ELSE L

\* character_by_id_mut(id).portal_coords = portal_coords
SetPortalCoords(L, id, portal_coords) ==
    [L EXCEPT !.objects_by_id[id].object.character.portal_coords =
                  portal_coords]

\* The body of the loop of Level::apply_returnings without the call of
\* set_tile_at: the returner leaves and its portal stays open.
ApplyReturningKeepingPortal(L, returning) ==
    IF ~HasCharacter(L, returning.linked_id)
       \/ ~TileInBounds(L, returning.returner.coords)
    THEN Panic(L)
    ELSE Ok(remove_at(SetPortalCoords(L, returning.linked_id, None),
                      returning.returner.coords))

\* The body of the loop of Level::apply_returnings without the unlinking of
\* the linked character.
ApplyReturningKeepingLink(L, returning) ==
    IF ~HasCharacter(L, returning.linked_id)
       \/ ~TileInBounds(L, returning.returner.coords)
    THEN Panic(L)
    ELSE Ok(set_tile_at(remove_at(L, returning.returner.coords),
                        returning.returner.coords, Floor(None)))

\* The body of the loop of Level::apply_returnings.
ApplyReturning(L, returning) ==
    IF ~HasCharacter(L, returning.linked_id)
       \/ ~TileInBounds(L, returning.returner.coords)
    THEN Panic(L)
    ELSE LET unlinked == SetPortalCoords(L, returning.linked_id, None)
             removed == remove_at(unlinked, returning.returner.coords)
         IN Ok(set_tile_at(removed, returning.returner.coords, Floor(None)))

RECURSIVE FoldReturnings(_, _, _)
FoldReturnings(X, returnings, order) ==
    IF order = <<>> \/ X.panic THEN X
    ELSE FoldReturnings(ApplyReturning(X.L, returnings[Head(order)]),
                        returnings, Tail(order))

\* Level::apply_returnings
apply_returnings(L, returnings) ==
    {FoldReturnings(Ok(L), returnings, order) :
        order \in Perms(DOMAIN returnings)}

\* Level::apply_moves. All movers leave the index first; then each mover is
\* inserted at its target, a later insertion at the same target replacing
\* an earlier one.
apply_moves(L, moves) ==
    IF \E id \in DOMAIN moves : id \notin DOMAIN L.objects_by_id
    THEN {Panic(L)}
    ELSE
    LET froms == {moves[id].from_coords : id \in DOMAIN moves}
        dests == {moves[id].to_coords : id \in DOMAIN moves}
        removed == Restrict(L.object_ids_by_coords,
                            DOMAIN L.object_ids_by_coords \ froms)
        movers(c) == {id \in DOMAIN moves : moves[id].to_coords = c}
        winners ==
            IF \A c \in dests : Cardinality(movers(c)) = 1
            THEN {[c \in dests |-> CHOOSE id \in movers(c) : TRUE]}
            ELSE {w \in [dests -> DOMAIN moves] :
                     \A c \in dests : w[c] \in movers(c)}
        moved == [id \in DOMAIN L.objects_by_id |->
                    IF id \in DOMAIN moves
                    THEN [L.objects_by_id[id] EXCEPT
                             !.coords = moves[id].to_coords,
                             !.angle = moves[id].to_angle]
                    ELSE L.objects_by_id[id]]
    IN {Ok([L EXCEPT
               !.objects_by_id = moved,
               !.object_ids_by_coords =
                   [c \in DOMAIN removed \cup dests |->
                       IF c \in dests THEN L.objects_by_id[w[c]].id
                       ELSE removed[c]]]) : w \in winners}

\* The body of the loop of Level::apply_summonings without the link from
\* the summoner to the portal.
ApplySummoningUnlinked(L, summoner_id, summoning) ==
    IF ~TileInBounds(L, summoning.summon.coords) THEN Panic(L)
    ELSE
    LET opened == set_tile_at(L, summoning.summon.coords,
                              Floor(Some(summoning.portal_color)))
        spawned == spawn(opened, ObjectOfCharacter(summoning.summon))
    IN IF ~HasCharacter(spawned, summoner_id) THEN Panic(spawned)
       ELSE Ok(spawned)

\* The body of the loop of Level::apply_summonings.
ApplySummoning(L, summoner_id, summoning) ==
    IF ~TileInBounds(L, summoning.summon.coords) THEN Panic(L)
    ELSE
    LET opened == set_tile_at(L, summoning.summon.coords,
                              Floor(Some(summoning.portal_color)))
        spawned == spawn(opened, ObjectOfCharacter(summoning.summon))
    IN IF ~HasCharacter(spawned, summoner_id) THEN Panic(spawned)
       ELSE Ok(SetPortalCoords(spawned, summoner_id,
                               Some(summoning.summon.coords)))

RECURSIVE FoldSummonings(_, _, _)
FoldSummonings(X, summonings, order) ==
    IF order = <<>> \/ X.panic THEN X
    ELSE FoldSummonings(
             ApplySummoning(X.L, Head(order), summonings[Head(order)]),
             summonings, Tail(order))

\* Level::apply_summonings
apply_summonings(L, summonings) ==
    {FoldSummonings(Ok(L), summonings, order) :
        order \in Perms(DOMAIN summonings)}

\* Level::apply
apply(L, change) ==
    LET Moves(L1) == apply_moves(L1, change.moves)
        Summonings(L2) == apply_summonings(L2, change.summonings)
    IN Bind(Bind(apply_returnings(L, change.returnings), Moves), Summonings)

----------------------------------------------------------------------------
(* Return phase.                                                           *)

\* get_returnings iterating over every character instead of the returners.
get_returnings_of_all(L, returners) ==
    LET returns(id) ==
            LET returner == level_character_by_id(L, id)
            IN /\ returner.character.portal_coords # None
               /\ Unwrap(returner.character.portal_coords) = returner.coords
    IN [panic |-> FALSE,
        returnings |->
            [id \in {r \in L.character_ids : returns(r)} |->
                Returning(level_character_by_id(L, id), id)]]

\* get_returnings without the comparison of the portal with the cell of the
\* returner: every returner that has a portal returns.
get_returnings_anywhere(L, returners) ==
    IF \E id \in returners : ~HasCharacter(L, id)
    THEN [panic |-> TRUE, returnings |-> EmptyMap]
    ELSE
    [panic |-> FALSE,
     returnings |->
        [id \in {r \in returners :
                    level_character_by_id(L, r).character.portal_coords
                        # None} |->
            Returning(level_character_by_id(L, id), id)]]

\* Level::get_returnings: [panic, returnings].
get_returnings(L, returners) ==
    IF \E id \in returners : ~HasCharacter(L, id)
    THEN [panic |-> TRUE, returnings |-> EmptyMap]
    ELSE
    LET returns(id) ==
            LET returner == level_character_by_id(L, id)
            IN /\ returner.character.portal_coords # None
               /\ Unwrap(returner.character.portal_coords) = returner.coords
    IN [panic |-> FALSE,
        returnings |->
            [id \in {r \in returners : returns(r)} |->
                Returning(level_character_by_id(L, id), id)]]

----------------------------------------------------------------------------
(* Push phase: teams.                                                      *)

Team(start, offset, count, strength, blocked) ==
    [start |-> start, offset |-> offset, count |-> count,
     strength |-> strength, blocked |-> blocked]

\* The team returned for a starting pusher that faces a wall, faces an
\* opposing pusher or runs out of strength.
BlockedTeam(start, offset) == Team(start, offset, 1, -1, TRUE)

\* Team::moved
moved(team) == [team EXCEPT !.start = AddOffset(team.start, team.offset)]

\* Team::coords, as the iterator yields them.
TeamCoordsSeq(team) ==
    [i \in 1 .. team.count |->
        AddOffset(team.start, MulOffset(i - 1, team.offset))]

TeamCoords(team) == Range(TeamCoordsSeq(team))

\* Team::collides
collides(a, b) ==
    IF a.offset = b.offset THEN FALSE
    ELSE TeamCoords(a) \cap TeamCoords(b) # {}

\* Team's order without the tie-break on the offset.
TeamLessByStrength(a, b) == a.strength < b.strength

\* Team's order on the offset alone.
TeamLessByOffset(a, b) == OffsetLess(a.offset, b.offset)

\* impl Ord for Team: by strength, then by offset.
TeamLess(a, b) ==
    \/ a.strength < b.strength
    \/ a.strength = b.strength /\ OffsetLess(a.offset, b.offset)

\* The loop of get_moves with a team that runs out of strength truncated
\* to the objects it could move, instead of blocked.
RECURSIVE WalkTruncating(_, _, _, _)
WalkTruncating(L, pushers, team, coords) ==
    IF ~TileInBounds(L, coords) THEN [panic |-> TRUE, team |-> team]
    ELSE IF tile_at(L, coords) = Wall
    THEN [panic |-> FALSE, team |-> BlockedTeam(team.start, team.offset)]
    ELSE IF coords \notin DOMAIN L.object_ids_by_coords
    THEN [panic |-> FALSE, team |-> team]
    ELSE
    LET other_id == L.object_ids_by_coords[coords]
        is_pusher == other_id \in DOMAIN pushers
        contributing == is_pusher /\ pushers[other_id] = team.offset
        opposing == is_pusher /\ ~contributing
                    /\ pushers[other_id] = NegOffset(team.offset)
    IN IF opposing
       THEN [panic |-> FALSE, team |-> BlockedTeam(team.start, team.offset)]
       ELSE IF is_pusher /\ ~contributing
       THEN [panic |-> FALSE, team |-> team]
       ELSE IF other_id \notin DOMAIN L.objects_by_id
       THEN [panic |-> TRUE, team |-> team]
       ELSE
       LET strength == team.strength + (IF contributing THEN 2 ELSE 0)
                       - weight(L.objects_by_id[other_id].object)
       IN IF strength < 0
          THEN [panic |-> FALSE, team |-> team]
          ELSE WalkTruncating(L, pushers,
                    [team EXCEPT !.strength = strength, !.count = @ + 1],
                    AddOffset(coords, team.offset))

\* The loop of get_moves with an opposing pusher taken as a passive object.
RECURSIVE WalkOverOpposing(_, _, _, _)
WalkOverOpposing(L, pushers, team, coords) ==
    IF ~TileInBounds(L, coords) THEN [panic |-> TRUE, team |-> team]
    ELSE IF tile_at(L, coords) = Wall
    THEN [panic |-> FALSE, team |-> BlockedTeam(team.start, team.offset)]
    ELSE IF coords \notin DOMAIN L.object_ids_by_coords
    THEN [panic |-> FALSE, team |-> team]
    ELSE
    LET other_id == L.object_ids_by_coords[coords]
        is_pusher == other_id \in DOMAIN pushers
        contributing == is_pusher /\ pushers[other_id] = team.offset
        opposing == is_pusher /\ ~contributing
                    /\ pushers[other_id] = NegOffset(team.offset)
    IN IF is_pusher /\ ~contributing /\ ~opposing
       THEN [panic |-> FALSE, team |-> team]
       ELSE IF other_id \notin DOMAIN L.objects_by_id
       THEN [panic |-> TRUE, team |-> team]
       ELSE
       LET strength == team.strength + (IF contributing THEN 2 ELSE 0)
                       - weight(L.objects_by_id[other_id].object)
       IN IF strength < 0
          THEN [panic |-> FALSE,
                team |-> BlockedTeam(team.start, team.offset)]
          ELSE WalkOverOpposing(L, pushers,
                    [team EXCEPT !.strength = strength, !.count = @ + 1],
                    AddOffset(coords, team.offset))

\* The loop of get_moves with a team that reaches a wall blocked as a whole,
\* keeping the objects it has claimed.
RECURSIVE WalkKeepingClaim(_, _, _, _)
WalkKeepingClaim(L, pushers, team, coords) ==
    IF ~TileInBounds(L, coords) THEN [panic |-> TRUE, team |-> team]
    ELSE IF tile_at(L, coords) = Wall
    THEN [panic |-> FALSE, team |-> [team EXCEPT !.blocked = TRUE]]
    ELSE IF coords \notin DOMAIN L.object_ids_by_coords
    THEN [panic |-> FALSE, team |-> team]
    ELSE
    LET other_id == L.object_ids_by_coords[coords]
        is_pusher == other_id \in DOMAIN pushers
        contributing == is_pusher /\ pushers[other_id] = team.offset
        opposing == is_pusher /\ ~contributing
                    /\ pushers[other_id] = NegOffset(team.offset)
    IN IF opposing
       THEN [panic |-> FALSE, team |-> BlockedTeam(team.start, team.offset)]
       ELSE IF is_pusher /\ ~contributing
       THEN [panic |-> FALSE, team |-> team]
       ELSE IF other_id \notin DOMAIN L.objects_by_id
       THEN [panic |-> TRUE, team |-> team]
       ELSE
       LET strength == team.strength + (IF contributing THEN 2 ELSE 0)
                       - weight(L.objects_by_id[other_id].object)
       IN IF strength < 0
          THEN [panic |-> FALSE,
                team |-> BlockedTeam(team.start, team.offset)]
          ELSE WalkKeepingClaim(L, pushers,
                    [team EXCEPT !.strength = strength, !.count = @ + 1],
                    AddOffset(coords, team.offset))

\* The loop of get_moves with the weight of a contributing pusher left
\* out of the subtraction.
RECURSIVE WalkFreePushers(_, _, _, _)
WalkFreePushers(L, pushers, team, coords) ==
    IF ~TileInBounds(L, coords) THEN [panic |-> TRUE, team |-> team]
    ELSE IF tile_at(L, coords) = Wall
    THEN [panic |-> FALSE, team |-> BlockedTeam(team.start, team.offset)]
    ELSE IF coords \notin DOMAIN L.object_ids_by_coords
    THEN [panic |-> FALSE, team |-> team]
    ELSE
    LET other_id == L.object_ids_by_coords[coords]
        is_pusher == other_id \in DOMAIN pushers
        contributing == is_pusher /\ pushers[other_id] = team.offset
        opposing == is_pusher /\ ~contributing
                    /\ pushers[other_id] = NegOffset(team.offset)
    IN IF opposing
       THEN [panic |-> FALSE, team |-> BlockedTeam(team.start, team.offset)]
       ELSE IF is_pusher /\ ~contributing
       THEN [panic |-> FALSE, team |-> team]
       ELSE IF other_id \notin DOMAIN L.objects_by_id
       THEN [panic |-> TRUE, team |-> team]
       ELSE
       LET strength == IF contributing THEN team.strength + 2
                       ELSE team.strength
                                - weight(L.objects_by_id[other_id].object)
       IN IF strength < 0
          THEN [panic |-> FALSE,
                team |-> BlockedTeam(team.start, team.offset)]
          ELSE WalkFreePushers(L, pushers,
                    [team EXCEPT !.strength = strength, !.count = @ + 1],
                    AddOffset(coords, team.offset))

\* The loop of get_moves without the test for a wall.
RECURSIVE WalkThroughWalls(_, _, _, _)
WalkThroughWalls(L, pushers, team, coords) ==
    IF ~TileInBounds(L, coords) THEN [panic |-> TRUE, team |-> team]
    ELSE IF coords \notin DOMAIN L.object_ids_by_coords
    THEN [panic |-> FALSE, team |-> team]
    ELSE
    LET other_id == L.object_ids_by_coords[coords]
        is_pusher == other_id \in DOMAIN pushers
        contributing == is_pusher /\ pushers[other_id] = team.offset
        opposing == is_pusher /\ ~contributing
                    /\ pushers[other_id] = NegOffset(team.offset)
    IN IF opposing
       THEN [panic |-> FALSE, team |-> BlockedTeam(team.start, team.offset)]
       ELSE IF is_pusher /\ ~contributing
       THEN [panic |-> FALSE, team |-> team]
       ELSE IF other_id \notin DOMAIN L.objects_by_id
       THEN [panic |-> TRUE, team |-> team]
       ELSE
       LET strength == team.strength + (IF contributing THEN 2 ELSE 0)
                       - weight(L.objects_by_id[other_id].object)
       IN IF strength < 0
          THEN [panic |-> FALSE,
                team |-> BlockedTeam(team.start, team.offset)]
          ELSE WalkThroughWalls(L, pushers,
                    [team EXCEPT !.strength = strength, !.count = @ + 1],
                    AddOffset(coords, team.offset))

\* The loop of get_moves that extends a team from its backmost pusher:
\* [panic, team].
RECURSIVE Walk(_, _, _, _)
Walk(L, pushers, team, coords) ==
    IF ~TileInBounds(L, coords) THEN [panic |-> TRUE, team |-> team]
    ELSE IF tile_at(L, coords) = Wall
    THEN [panic |-> FALSE, team |-> BlockedTeam(team.start, team.offset)]
    ELSE IF coords \notin DOMAIN L.object_ids_by_coords
    THEN [panic |-> FALSE, team |-> team]
    ELSE
    LET other_id == L.object_ids_by_coords[coords]
        is_pusher == other_id \in DOMAIN pushers
        contributing == is_pusher /\ pushers[other_id] = team.offset
        opposing == is_pusher /\ ~contributing
                    /\ pushers[other_id] = NegOffset(team.offset)
    IN IF opposing
       THEN [panic |-> FALSE, team |-> BlockedTeam(team.start, team.offset)]
       ELSE IF is_pusher /\ ~contributing
       THEN [panic |-> FALSE, team |-> team]
       ELSE IF other_id \notin DOMAIN L.objects_by_id
       THEN [panic |-> TRUE, team |-> team]
       ELSE
       LET strength == team.strength + (IF contributing THEN 2 ELSE 0)
                       - weight(L.objects_by_id[other_id].object)
       IN IF strength < 0
          THEN [panic |-> FALSE,
                team |-> BlockedTeam(team.start, team.offset)]
          ELSE Walk(L, pushers,
                    [team EXCEPT !.strength = strength, !.count = @ + 1],
                    AddOffset(coords, team.offset))

\* The team built for pusher id: [panic, team].
TeamOf(L, pushers, id) ==
    LET pusher == L.objects_by_id[id]
    IN Walk(L, pushers, Team(pusher.coords, pushers[id], 1, 1, FALSE),
            AddOffset(pusher.coords, pushers[id]))

\* The teams map, keyed by start. Two pushers with one start leave the team
\* of the one the pushers map yields last.
TeamMaps(L, pushers) ==
    LET built == [id \in DOMAIN pushers |-> TeamOf(L, pushers, id).team]
        starts == {built[id].start : id \in DOMAIN pushers}
        at(c) == {built[id] : id \in {i \in DOMAIN pushers :
                                         built[i].start = c}}
    IN IF \A c \in starts : Cardinality(at(c)) = 1
       THEN {[c \in starts |-> CHOOSE t \in at(c) : TRUE]}
       ELSE {f \in [starts -> Range(built)] : \A c \in starts : f[c] \in at(c)}

\* sorted_teams: the teams in increasing priority. The sort is stable, so
\* teams that compare equal stay in the order the teams map yields them.
RECURSIVE SortedTeams(_)
SortedTeams(S) ==
    IF S = {} THEN {<<>>}
    ELSE UNION {{<<x>> \o p : p \in SortedTeams(S \ {x})} :
                   x \in {y \in S : \A z \in S : ~TeamLess(z, y)}}

\* The cutting loop that cuts no team.
CutTeamsNone(teams, sorted, i, cut_teams) == {}

\* The cutting loop, from sorted[i] down: the starts of the cut teams.
RECURSIVE CutTeams(_, _, _, _)
CutTeams(teams, sorted, i, cut_teams) ==
    IF i = 0 THEN cut_teams
    ELSE IF sorted[i].start \in cut_teams
    THEN CutTeams(teams, sorted, i - 1, cut_teams)
    ELSE CutTeams(teams, sorted, i - 1,
                  cut_teams \cup {teams[c].start :
                      c \in {d \in DOMAIN teams :
                                collides(sorted[i], teams[d])}})

\* The starts lying in the tail of a team.
Subteams(teams) ==
    UNION {{TeamCoordsSeq(teams[c])[i] : i \in 2 .. teams[c].count} :
              c \in DOMAIN teams}

\* The teams left when subteams are discarded before the cutting loop.
SurvivingTeamsPrunedFirst(teams, sorted) ==
    LET maximal == Restrict(teams, DOMAIN teams \ Subteams(teams))
        order == SelectSeq(sorted, LAMBDA t : t.start \in DOMAIN maximal)
        cut_teams == CutTeams(maximal, order, Len(order), {})
    IN Restrict(maximal, DOMAIN maximal \ cut_teams)

\* The teams left after cutting and after discarding subteams.
SurvivingTeams(teams, sorted) ==
    LET cut_teams == CutTeams(teams, sorted, Len(sorted), {})
        uncut == Restrict(teams, DOMAIN teams \ cut_teams)
    IN Restrict(uncut, DOMAIN uncut \ Subteams(uncut))

\* The collision maps, as sets of team starts.
stay_move_collisions(teams, c) ==
    {d \in DOMAIN teams : collides(teams[c], moved(teams[d]))}
move_stay_collisions(teams, c) ==
    {d \in DOMAIN teams : collides(moved(teams[c]), teams[d])}
move_move_collisions(teams, c) ==
    {d \in DOMAIN teams : collides(moved(teams[c]), moved(teams[d]))}
\* No team is blocked ahead of the blocking pass.
move_colliders_none(teams) == {}

move_colliders(teams) ==
    {c \in DOMAIN teams :
        move_move_collisions(teams, c) \cap move_stay_collisions(teams, c)
            # {}}

----------------------------------------------------------------------------
(* Push phase: blocking and commit.                                        *)
(* teams holds each team as it was built; blocked holds the starts of the  *)
(* teams whose entry in the teams map has blocked = true now. The copies   *)
(* of teams in sorted_teams, in the collision sets and in block_queue keep *)
(* the blocked flag they were built with.                                  *)

\* The while loop over block_queue: [blocked, hang]. The queue holds starts;
\* pop takes the last one.
RECURSIVE RunBlockQueue(_, _, _, _)
RunBlockQueue(teams, block_queue, blocked, pops) ==
    IF block_queue = <<>> THEN [blocked |-> blocked, hang |-> FALSE]
    ELSE IF pops = 0 THEN [blocked |-> blocked, hang |-> TRUE]
    ELSE
    LET start == block_queue[Len(block_queue)]
        rest == SubSeq(block_queue, 1, Len(block_queue) - 1)
    IN IF teams[start].blocked
       THEN RunBlockQueue(teams, rest, blocked, pops - 1)
       ELSE RunBlockQueue(teams,
                rest \o SetToSeq(stay_move_collisions(teams, start)),
                blocked \cup {start}, pops - 1)

\* Whether the blocking pass queues the team at start.
Queues(teams, blocked, start) ==
    /\ start \in DOMAIN teams
    /\ \/ \E other \in move_move_collisions(teams, start) :
             other \notin blocked
       \/ \E other \in move_stay_collisions(teams, start) :
             other \in blocked

\* The blocking pass over sorted_teams from index i: [blocked, hang].
RECURSIVE BlockTeams(_, _, _, _)
BlockTeams(teams, sorted, i, blocked) ==
    IF i > Len(sorted) THEN [blocked |-> blocked, hang |-> FALSE]
    ELSE IF sorted[i].blocked \/ ~Queues(teams, blocked, sorted[i].start)
    THEN BlockTeams(teams, sorted, i + 1, blocked)
    ELSE LET run == RunBlockQueue(teams, <<sorted[i].start>>, blocked,
                                  MaxPops)
         IN IF run.hang THEN run
            ELSE BlockTeams(teams, sorted, i + 1, run.blocked)

\* Level::get_move
get_move(L, id, offset) ==
    LET object == L.objects_by_id[id]
    IN Move(object.coords, AddOffset(object.coords, offset), object.angle,
            Angle(offset))

\* The cells whose objects the commit loop moves, with the team's offset.
Committed(teams, blocked) ==
    UNION {{[coords |-> coords, offset |-> teams[c].offset] :
               coords \in TeamCoords(teams[c])} :
              c \in DOMAIN teams \ blocked}

\* The commit loop: [panic, hang, moves], one outcome per order in which
\* the moves map can be filled.
Commit(L, teams, blocked) ==
    LET cells == Committed(teams, blocked)
    IN IF \E m \in cells :
             \/ m.coords \notin DOMAIN L.object_ids_by_coords
             \/ L.object_ids_by_coords[m.coords] \notin DOMAIN L.objects_by_id
       THEN {[panic |-> TRUE, hang |-> FALSE, moves |-> EmptyMap]}
       ELSE
       LET ids == {L.object_ids_by_coords[m.coords] : m \in cells}
           of(id) == {get_move(L, id, m.offset) :
                         m \in {n \in cells :
                                   L.object_ids_by_coords[n.coords] = id}}
       IN IF \A id \in ids : Cardinality(of(id)) = 1
          THEN {[panic |-> FALSE, hang |-> FALSE,
                 moves |-> [id \in ids |-> CHOOSE mv \in of(id) : TRUE]]}
          ELSE {[panic |-> FALSE, hang |-> FALSE, moves |-> f] :
                   f \in {g \in [ids -> UNION {of(id) : id \in ids}] :
                             \A id \in ids : g[id] \in of(id)}}

\* get_moves once the teams map and sorted_teams are fixed.
ResolveTeams(L, teams, sorted) ==
    LET surviving == SurvivingTeams(teams, sorted)
        forced == {c \in DOMAIN surviving : surviving[c].blocked}
                  \cup move_colliders(surviving)
        pass == BlockTeams(surviving, sorted, 1, forced)
    IN IF pass.hang
       THEN {[panic |-> FALSE, hang |-> TRUE, moves |-> EmptyMap]}
       ELSE Commit(L, surviving, pass.blocked)

\* Level::get_moves: the set of [panic, hang, moves] it can produce.
get_moves(L, pushers) ==
    IF \/ \E id \in DOMAIN pushers : id \notin DOMAIN L.objects_by_id
       \/ \E id \in DOMAIN pushers : TeamOf(L, pushers, id).panic
    THEN {[panic |-> TRUE, hang |-> FALSE, moves |-> EmptyMap]}
    ELSE UNION {UNION {ResolveTeams(L, teams, sorted) :
                          sorted \in SortedTeams(Range(teams))} :
                   teams \in TeamMaps(L, pushers)}

----------------------------------------------------------------------------
(* Summon phase.                                                           *)

\* Level::get_available_colors, in increasing index.
AvailableColorSet(L) ==
    {color \in 0 .. COUNT - 1 :
        \A id \in L.character_ids : character_by_id(L, id).color # color}

RECURSIVE SortedColors(_)
SortedColors(S) ==
    IF S = {} THEN <<>>
    ELSE LET least == CHOOSE x \in S : \A y \in S : x <= y
         IN <<least>> \o SortedColors(S \ {least})

\* get_available_colors without the filter on the colours in use.
get_all_colors(L) == SortedColors(0 .. COUNT - 1)

get_available_colors(L) == SortedColors(AvailableColorSet(L))

\* Level::farthest_open_tile, scanning on from coords with the best cell
\* found so far.
RECURSIVE FarthestFrom(_, _, _, _)
FarthestFrom(L, coords, offset, result) ==
    LET next == AddOffset(coords, offset)
    IN IF next.row < 0 \/ next.row >= L.height
          \/ next.col < 0 \/ next.col >= L.width
       THEN result
       ELSE IF tile_at(L, next) = Floor(None) /\ object_at(L, next) = None
       THEN FarthestFrom(L, next, offset, Some(next))
       ELSE FarthestFrom(L, next, offset, result)

\* The scan that stops at the first empty floor tile.
RECURSIVE NearestFrom(_, _, _)
NearestFrom(L, coords, offset) ==
    LET next == AddOffset(coords, offset)
    IN IF next.row < 0 \/ next.row >= L.height
          \/ next.col < 0 \/ next.col >= L.width
       THEN None
       ELSE IF tile_at(L, next) = Floor(None) /\ object_at(L, next) = None
       THEN Some(next)
       ELSE NearestFrom(L, next, offset)

\* farthest_open_tile returning the empty floor tile nearest to start.
nearest_open_tile(L, start, offset) == NearestFrom(L, start, offset)

\* The scan that takes every tile but a wall for open when it holds no
\* object.
RECURSIVE FarthestOffWall(_, _, _, _)
FarthestOffWall(L, coords, offset, result) ==
    LET next == AddOffset(coords, offset)
    IN IF next.row < 0 \/ next.row >= L.height
          \/ next.col < 0 \/ next.col >= L.width
       THEN result
       ELSE IF tile_at(L, next) # Wall /\ object_at(L, next) = None
       THEN FarthestOffWall(L, next, offset, Some(next))
       ELSE FarthestOffWall(L, next, offset, result)

\* farthest_open_tile that does not look at the kind of floor.
farthest_unwalled_tile(L, start, offset) ==
    FarthestOffWall(L, start, offset, None)

farthest_open_tile(L, start, offset) == FarthestFrom(L, start, offset, None)

\* Level::new_object_id is called once for each summoner that is paired
\* with a colour: the i-th of them receives next_object_id + i - 1.
\* get_summonings for one iteration order of the summoners map:
\* [L, panic, summonings].
SummoningsInOrder(L, summoners, order) ==
    LET colors == get_available_colors(L)
        n == IF Len(order) < Len(colors) THEN Len(order) ELSE Len(colors)
        dest(i) ==
            farthest_open_tile(L, L.objects_by_id[order[i]].coords,
                               summoners[order[i]])
        made == {i \in 1 .. n : dest(i) # None}
        index(id) == CHOOSE i \in made : order[i] = id
    IN IF \E i \in 1 .. n : ~HasCharacter(L, order[i])
       THEN [L |-> L, panic |-> TRUE, summonings |-> EmptyMap]
       ELSE [L |-> [L EXCEPT !.next_object_id = @ + n],
             panic |-> FALSE,
             summonings |->
                [id \in {order[i] : i \in made} |->
                    Summoning(
                        LevelCharacter(L.next_object_id + index(id) - 1,
                            Character(colors[index(id)], FALSE, None),
                            Unwrap(dest(index(id))), 0),
                        id,
                        level_character_by_id(L, id).character.color)]]

\* Level::get_summonings
get_summonings(L, summoners) ==
    IF \E id \in L.character_ids : ~HasCharacter(L, id)
    THEN {[L |-> L, panic |-> TRUE, summonings |-> EmptyMap]}
    ELSE {SummoningsInOrder(L, summoners, order) :
             order \in Perms(DOMAIN summoners)}

----------------------------------------------------------------------------
(* update, undo, redo.                                                     *)

EmptyChange == Change(EmptyMap, EmptyMap, EmptyMap)

\* An update that did not return: it panicked or never left a loop.
Failed(L, panic, hang) ==
    [L |-> L, panic |-> panic, hang |-> hang, change |-> EmptyChange]

\* Record without the truncation of the history.
RecordWithoutTruncate(L, change) ==
    [L EXCEPT !.history = Append(@, BiChange(change, ReverseChange(change))),
              !.turn = @ + 1]

\* Record that leaves the history alone when the change is empty.
RecordChangesOnly(L, change) ==
    IF change = Change(EmptyMap, EmptyMap, EmptyMap) THEN L
    ELSE [L EXCEPT !.history = Append(SubSeq(@, 1, L.turn),
                                      BiChange(change, ReverseChange(change))),
                   !.turn = @ + 1]

\* The end of Level::update: the change is recorded after truncating the
\* history to the current turn.
Record(L, change) ==
    [L EXCEPT !.history = Append(SubSeq(@, 1, L.turn),
                                 BiChange(change, ReverseChange(change))),
              !.turn = @ + 1]

\* update with the summon phase resolved before the push phase.
update_summons_before_pushes(L, actors) ==
    LET pushers == [id \in {i \in DOMAIN actors : actors[i].kind = "Push"} |->
                        actors[id].offset]
        summoners ==
            [id \in {i \in DOMAIN actors : actors[i].kind = "Summon"} |->
                actors[id].offset]
        returners == {i \in DOMAIN actors : actors[i].kind = "Return"}
        rets == get_returnings(L, returners)
        Moved(L2, M, S) ==
            {IF X.panic THEN Failed(L, TRUE, FALSE)
             ELSE [L |-> Record(X.L, Change(rets.returnings, M.moves,
                                            S.summonings)),
                   panic |-> FALSE, hang |-> FALSE,
                   change |-> Change(rets.returnings, M.moves, S.summonings)] :
                X \in apply_moves(L2, M.moves)}
        AfterSummons(L2, S) ==
            UNION {IF M.panic \/ M.hang THEN {Failed(L, M.panic, M.hang)}
                   ELSE Moved(L2, M, S) : M \in get_moves(L2, pushers)}
        Summoned(S) ==
            UNION {IF X.panic THEN {Failed(L, TRUE, FALSE)}
                   ELSE AfterSummons(X.L, S) :
                      X \in apply_summonings(S.L, S.summonings)}
        AfterReturns(L1) ==
            UNION {IF S.panic THEN {Failed(L, TRUE, FALSE)}
                   ELSE Summoned(S) : S \in get_summonings(L1, summoners)}
    IN IF rets.panic THEN {Failed(L, TRUE, FALSE)}
       ELSE UNION {IF X.panic THEN {Failed(L, TRUE, FALSE)}
                   ELSE AfterReturns(X.L) :
                      X \in apply_returnings(L, rets.returnings)}

\* Level::update, for actors a map from ids to actions: the set of
\* outcomes [L, panic, hang, change] over the iteration orders of its maps.
update(L, actors) ==
    LET pushers == [id \in {i \in DOMAIN actors : actors[i].kind = "Push"} |->
                        actors[id].offset]
        summoners ==
            [id \in {i \in DOMAIN actors : actors[i].kind = "Summon"} |->
                actors[id].offset]
        returners == {i \in DOMAIN actors : actors[i].kind = "Return"}
        rets == get_returnings(L, returners)
        Summoned(S, moves) ==
            {IF X.panic THEN Failed(L, TRUE, FALSE)
             ELSE [L |-> Record(X.L, Change(rets.returnings, moves,
                                            S.summonings)),
                   panic |-> FALSE, hang |-> FALSE,
                   change |-> Change(rets.returnings, moves, S.summonings)] :
                X \in apply_summonings(S.L, S.summonings)}
        AfterMoves(L2, moves) ==
            UNION {IF S.panic THEN {Failed(L, TRUE, FALSE)}
                   ELSE Summoned(S, moves) :
                      S \in get_summonings(L2, summoners)}
        Moved(L1, M) ==
            UNION {IF X.panic THEN {Failed(L, TRUE, FALSE)}
                   ELSE AfterMoves(X.L, M.moves) :
                      X \in apply_moves(L1, M.moves)}
        AfterReturns(L1) ==
            UNION {IF M.panic \/ M.hang THEN {Failed(L, M.panic, M.hang)}
                   ELSE Moved(L1, M) : M \in get_moves(L1, pushers)}
    IN IF rets.panic THEN {Failed(L, TRUE, FALSE)}
       ELSE UNION {IF X.panic THEN {Failed(L, TRUE, FALSE)}
                   ELSE AfterReturns(X.L) :
                      X \in apply_returnings(L, rets.returnings)}

\* undo that also takes back the object ids of the summons it undoes.
undo_rewinding_ids(L) ==
    IF L.turn > 0
    THEN LET change == L.history[L.turn].reverse
         IN {IF X.panic THEN [L |-> L, panic |-> TRUE, ret |-> None]
             ELSE [L |-> [X.L EXCEPT
                            !.turn = @ - 1,
                            !.next_object_id =
                                @ - Cardinality(DOMAIN change.returnings)],
                   panic |-> FALSE,
                   ret |-> Some(change)] : X \in apply(L, change)}
    ELSE {[L |-> L, panic |-> FALSE, ret |-> None]}

\* undo without the guard on the cursor: at turn 0 the index turn - 1
\* underflows and the call panics.
undo_unguarded(L) ==
    IF L.turn > 0
    THEN LET change == L.history[L.turn].reverse
         IN {IF X.panic THEN [L |-> L, panic |-> TRUE, ret |-> None]
             ELSE [L |-> [X.L EXCEPT !.turn = @ - 1], panic |-> FALSE,
                   ret |-> Some(change)] : X \in apply(L, change)}
    ELSE {[L |-> L, panic |-> TRUE, ret |-> None]}

\* redo with undo's guard: it looks at the entry before the cursor.
redo_off_by_one(L) ==
    IF L.turn > 0
    THEN LET change == L.history[L.turn].forward
         IN {IF X.panic THEN [L |-> L, panic |-> TRUE, ret |-> None]
             ELSE [L |-> [X.L EXCEPT !.turn = @ + 1], panic |-> FALSE,
                   ret |-> Some(change)] : X \in apply(L, change)}
    ELSE {[L |-> L, panic |-> FALSE, ret |-> None]}

\* redo that applies the change and leaves the cursor where it was.
redo_keeping_turn(L) ==
    IF L.turn < Len(L.history)
    THEN LET change == L.history[L.turn + 1].forward
         IN {IF X.panic THEN [L |-> L, panic |-> TRUE, ret |-> None]
             ELSE [L |-> X.L, panic |-> FALSE, ret |-> Some(change)] :
                X \in apply(L, change)}
    ELSE {[L |-> L, panic |-> FALSE, ret |-> None]}

\* Level::undo: the set of outcomes [L, panic, ret].
undo(L) ==
    IF L.turn > 0
    THEN LET change == L.history[L.turn].reverse
         IN {IF X.panic THEN [L |-> L, panic |-> TRUE, ret |-> None]
             ELSE [L |-> [X.L EXCEPT !.turn = @ - 1], panic |-> FALSE,
                   ret |-> Some(change)] : X \in apply(L, change)}
    ELSE {[L |-> L, panic |-> FALSE, ret |-> None]}

\* Level::redo: the set of outcomes [L, panic, ret].
redo(L) ==
    IF L.turn < Len(L.history)
    THEN LET change == L.history[L.turn + 1].forward
         IN {IF X.panic THEN [L |-> L, panic |-> TRUE, ret |-> None]
             ELSE [L |-> [X.L EXCEPT !.turn = @ + 1], panic |-> FALSE,
                   ret |-> Some(change)] : X \in apply(L, change)}
    ELSE {[L |-> L, panic |-> FALSE, ret |-> None]}

----------------------------------------------------------------------------
(* make_level. A map is a sequence of rows, a row a sequence of cells, a   *)
(* cell the pair <<tile glyph, object glyph>>.                             *)

IsDigit(glyph) == glyph \in {"0", "1", "2", "3", "4", "5", "6", "7"}

\* CharacterColor::from(object - b'0')
ColorOfGlyph(glyph) ==
    CASE glyph = "0" -> 0 [] glyph = "1" -> 1 [] glyph = "2" -> 2
      [] glyph = "3" -> 3 [] glyph = "4" -> 4 [] glyph = "5" -> 5
      [] glyph = "6" -> 6 [] glyph = "7" -> 7

TileOfGlyph(glyph) ==
    CASE glyph = "#" -> Wall
      [] glyph = ">" -> Stairs
      [] OTHER -> Floor(None)

ObjectOfGlyph(glyph) ==
    CASE IsDigit(glyph) ->
            CharacterObject(Character(ColorOfGlyph(glyph), FALSE, None))
      [] glyph = "X" -> WoodenCrate
      [] glyph = "Y" -> SteelCrate
      [] glyph = "Z" -> StoneBlock

\* The order in which make_level spawns the objects: characters first, by
\* colour; then the other objects by row (and here by column within a row).
SpawnsBefore(map, a, b) ==
    LET ga == map[a.row + 1][a.col + 1][2]
        gb == map[b.row + 1][b.col + 1][2]
    IN IF IsDigit(ga) /\ IsDigit(gb) THEN ColorOfGlyph(ga) < ColorOfGlyph(gb)
       ELSE IF IsDigit(ga) THEN TRUE
       ELSE IF IsDigit(gb) THEN FALSE
       ELSE a.row < b.row \/ (a.row = b.row /\ a.col < b.col)

RECURSIVE SpawnOrder(_, _)
SpawnOrder(map, cells) ==
    IF cells = {} THEN <<>>
    ELSE LET first == CHOOSE a \in cells :
                          \A b \in cells \ {a} : SpawnsBefore(map, a, b)
         IN <<first>> \o SpawnOrder(map, cells \ {first})

RECURSIVE SpawnAll(_, _, _, _)
SpawnAll(L, map, order, i) ==
    IF i > Len(order) THEN L
    ELSE SpawnAll(
             spawn([L EXCEPT !.next_object_id = @ + 1],
                   LevelObject(L.next_object_id,
                       ObjectOfGlyph(map[order[i].row + 1][order[i].col + 1][2]),
                       order[i], 0)),
             map, order, i + 1)

make_level(map) ==
    LET h == Len(map)
        w == Len(map[1])
        t == [k \in 1 .. h * w |->
                TileOfGlyph(map[((k - 1) \div w) + 1][((k - 1) % w) + 1][1])]
        cells == {Coords(r, c) : r \in 0 .. h - 1, c \in 0 .. w - 1}
        occupied == {x \in cells :
                        map[x.row + 1][x.col + 1][2] \in
                            {"0", "1", "2", "3", "4", "5", "6", "7",
                             "X", "Y", "Z"}}
    IN SpawnAll(Level(w, h, t, EmptyMap, EmptyMap, {}, 0, <<>>, 0),
                map, SpawnOrder(map, occupied), 1)

----------------------------------------------------------------------------
(* Levels.                                                                 *)

WL == <<"#", " ">>
FL == <<".", " ">>
C0 == <<".", "0">>
C1g == <<".", "1">>
C2g == <<".", "2">>
WX == <<".", "X">>

\* One character in a walled room of three cells.
PortalMap ==
    << <<WL, WL, WL, WL>>,
       <<WL, C0, FL, WL>>,
       <<WL, WL, FL, WL>>,
       <<WL, WL, WL, WL>> >>

C3g == <<".", "3">>
C4g == <<".", "4">>

\* Five characters in a room of six cells: four of them sit on a square.
LoopMap ==
    << <<WL, WL, WL, WL>>,
       <<WL, FL, C4g, WL>>,
       <<WL, C0, C1g, WL>>,
       <<WL, C3g, C2g, WL>>,
       <<WL, WL, WL, WL>> >>

\* Two characters in a corridor of three cells with a side cell.
ContendMap ==
    << <<WL, WL, WL, WL, WL>>,
       <<WL, FL, C0, C1g, WL>>,
       <<WL, FL, WL, WL, WL>>,
       <<WL, WL, WL, WL, WL>> >>

\* Three characters and a wooden crate in a walled room of six cells.
TeamsMap ==
    << <<WL, WL, WL, WL, WL>>,
       <<WL, C0, C1g, WL, WL>>,
       <<WL, C2g, WX, FL, WL>>,
       <<WL, WL, FL, WL, WL>>,
       <<WL, WL, WL, WL, WL>> >>

----------------------------------------------------------------------------
(* The state machine: a driver that calls update, undo and redo.           *)

InitLevel(L) ==
    /\ width = L.width
    /\ height = L.height
    /\ tiles = L.tiles
    /\ objects_by_id = L.objects_by_id
    /\ object_ids_by_coords = L.object_ids_by_coords
    /\ character_ids = L.character_ids
    /\ next_object_id = L.next_object_id
    /\ history = L.history
    /\ turn = L.turn
    /\ status = "ok"
    /\ lastOp = "none"
    /\ ret = None
    /\ dropped = 0
    /\ waited = FALSE
    /\ state_summoning = FALSE
    /\ character_actions = << >>
    /\ sent = None

\* The call returned (or not) with outcome out.
Becomes(out, op, returned) ==
    /\ width' = out.L.width
    /\ height' = out.L.height
    /\ tiles' = out.L.tiles
    /\ objects_by_id' = out.L.objects_by_id
    /\ object_ids_by_coords' = out.L.object_ids_by_coords
    /\ character_ids' = out.L.character_ids
    /\ next_object_id' = out.L.next_object_id
    /\ history' = out.L.history
    /\ turn' = out.L.turn
    /\ lastOp' = op
    /\ ret' = returned

\* The actor lists of a turn: one action for every live character, at most
\* MaxSummoners of them summoning.
Turns(L) ==
    {actors \in [L.character_ids -> Actions] :
        Cardinality({id \in L.character_ids :
                        actors[id].kind = "Summon"}) <= MaxSummoners}

\* The actor lists of the driver: every summoner takes an object id, and
\* the ids stay within MaxObjectId.
Actors(L) ==
    {actors \in Turns(L) :
        L.next_object_id
            + Cardinality({id \in L.character_ids :
                              actors[id].kind = "Summon"}) <= MaxObjectId}

\* The precondition of Level::update: any two summoners summon into
\* disjoint coordinates.
SummonsDisjoint(change) ==
    \A a, b \in DOMAIN change.summonings :
        a # b => change.summonings[a].summon.coords
                    # change.summonings[b].summon.coords

\* The turn in which every character waits.
AllWait(L) == [id \in L.character_ids |-> Wait]

\* One call of update with an actor list of actorSets that meets the
\* precondition.
UpdateLevel(actors) ==
    \E out \in update(Self, actors) :
        /\ SummonsDisjoint(out.change)
        /\ Becomes(out, "update",
                   IF out.panic \/ out.hang THEN None ELSE Some(out.change))
        /\ status' = IF out.panic THEN "panic"
                     ELSE IF out.hang THEN "hang" ELSE "ok"
        /\ dropped' = Len(history) - turn
        /\ waited' = (actors = AllWait(Self))

UpdateWith(actorSets) ==
    /\ status = "ok"
    /\ \E actors \in actorSets : UpdateLevel(actors)
    /\ UNCHANGED <<state_summoning, character_actions, sent>>

Update ==
    /\ Len(history) < MaxHistory
    /\ UpdateWith(Actors(Self))

UndoLevel ==
    \E out \in undo(Self) :
        /\ Becomes(out, "undo", out.ret)
        /\ status' = IF out.panic THEN "panic" ELSE "ok"
        /\ dropped' = 0
        /\ waited' = FALSE

RedoLevel ==
    \E out \in redo(Self) :
        /\ Becomes(out, "redo", out.ret)
        /\ status' = IF out.panic THEN "panic" ELSE "ok"
        /\ dropped' = 0
        /\ waited' = FALSE

Undo ==
    /\ status = "ok"
    /\ UndoLevel
    /\ UNCHANGED <<state_summoning, character_actions, sent>>

Redo ==
    /\ status = "ok"
    /\ RedoLevel
    /\ UNCHANGED <<state_summoning, character_actions, sent>>

Init == InitLevel(make_level(PortalMap))

Next == Update \/ Undo \/ Redo

Spec == Init /\ [][Next]_vars

-----------------------------------------------------------------------------
(* The same driver on TeamsMap, every character pushing or waiting.        *)

PushActions == {Wait} \cup {Push(o) : o \in Offsets}

UpdateTeams ==
    /\ Len(history) < MaxTeamsHistory
    /\ UpdateWith([character_ids -> PushActions])

InitTeams == InitLevel(make_level(TeamsMap))

NextTeams == UpdateTeams \/ Undo \/ Redo

SpecTeams == InitTeams /\ [][NextTeams]_vars

-----------------------------------------------------------------------------
(* The same driver on LoopMap: five characters around one free cell.       *)

UpdateLoop ==
    /\ Len(history) < MaxLoopHistory
    /\ UpdateWith([character_ids -> PushActions])

InitLoop == InitLevel(make_level(LoopMap))

NextLoop == UpdateLoop \/ Undo \/ Redo

SpecLoop == InitLoop /\ [][NextLoop]_vars

-----------------------------------------------------------------------------
(* update called on ContendMap after an opening of two turns: character 0  *)
(* summons character 2 to its left, then 2 steps down while 0 and 1 step   *)
(* left, which leaves 0 on its own portal between 1 and 2.                 *)

ContendOpening ==
    << (0 :> Summon(LEFT)) @@ (1 :> Wait),
       (0 :> Push(LEFT)) @@ (1 :> Push(LEFT)) @@ (2 :> Push(DOWN)) >>

\* The levels that the turns lead to from the levels Ls.
RECURSIVE Played(_, _)
Played(Ls, turns) ==
    IF turns = << >> THEN Ls
    ELSE Played({out.L : out \in
                    {o \in UNION {update(L, Head(turns)) : L \in Ls} :
                        ~o.panic /\ ~o.hang}},
                Tail(turns))

\* Every character pushes, waits or returns.
ReturnActions == PushActions \cup {Return}

UpdateContend ==
    /\ Len(history) < MaxContendHistory
    /\ UpdateWith([character_ids -> ReturnActions])

InitContend ==
    \E L \in Played({make_level(ContendMap)}, ContendOpening) : InitLevel(L)

NextContend == UpdateContend

SpecContend == InitContend /\ [][NextContend]_vars

-----------------------------------------------------------------------------
(* update, undo and redo called after the opening on ContendMap, with      *)
(* every action of the control layer.                                      *)

MaxReturnHistory == 3

UpdateReturn ==
    /\ Len(history) < MaxReturnHistory
    /\ UpdateWith(Actors(Self))

NextReturn == UpdateReturn \/ Undo \/ Redo

SpecReturn == InitContend /\ [][NextReturn]_vars

-----------------------------------------------------------------------------
(* update, undo and redo called on SummonMap, with every action of the     *)
(* control layer.                                                          *)

MaxSummonHistory == 3

\* One character in a side cell of a corridor that has a wall and a wooden
\* crate between floor cells.
SummonMap ==
    << <<WL, WL, WL, WL, WL, WL, WL, WL>>,
       <<WL, FL, WL, WX, FL, FL, FL, WL>>,
       <<WL, WL, WL, WL, WL, C0, WL, WL>>,
       <<WL, WL, WL, WL, WL, WL, WL, WL>> >>

UpdateSummon ==
    /\ Len(history) < MaxSummonHistory
    /\ UpdateWith(Actors(Self))

InitSummon == InitLevel(make_level(SummonMap))

NextSummon == UpdateSummon \/ Undo \/ Redo

SpecSummon == InitSummon /\ [][NextSummon]_vars

-----------------------------------------------------------------------------
(* update, undo and redo called on FullMap, a level whose characters use   *)
(* all the colours: one character acts in a turn and the others wait.      *)

MaxFullHistory == 2

C5g == <<".", "5">>
C6g == <<".", "6">>
C7g == <<".", "7">>

\* COUNT characters in a corridor with two free cells.
FullMap ==
    << <<WL, WL, WL, WL, WL, WL, WL, WL, WL, WL, WL, WL>>,
       <<WL, C0, C1g, C2g, C3g, C4g, C5g, C6g, C7g, FL, FL, WL>>,
       <<WL, WL, WL, WL, WL, WL, WL, WL, WL, WL, WL, WL>> >>

\* The actor lists in which at most one character does not wait.
OneActs(L) ==
    {[id \in L.character_ids |-> IF id = actor THEN action ELSE Wait] :
        actor \in L.character_ids, action \in Actions}

UpdateFull ==
    /\ Len(history) < MaxFullHistory
    /\ UpdateWith(OneActs(Self))

InitFull == InitLevel(make_level(FullMap))

NextFull == UpdateFull \/ Undo \/ Redo

SpecFull == InitFull /\ [][NextFull]_vars

-----------------------------------------------------------------------------
(* update, undo and redo called after the opening on ContendMap, with the  *)
(* actions that the control layer offers a character: Summon only for a    *)
(* character that can_summon.                                              *)

MaxLinksHistory == 3
MaxLinksObjectId == 5

\* The actor lists in which every summoner can summon, with the ids within
\* MaxLinksObjectId.
OfferedActors(L) ==
    {actors \in Turns(L) :
        /\ L.next_object_id
              + Cardinality({id \in L.character_ids :
                                actors[id].kind = "Summon"})
                <= MaxLinksObjectId
        /\ \A id \in L.character_ids :
              actors[id].kind = "Summon"
                  => can_summon(character_by_id(L, id))}

UpdateLinks ==
    /\ Len(history) < MaxLinksHistory
    /\ UpdateWith(OfferedActors(Self))

NextLinks == UpdateLinks \/ Undo \/ Redo

SpecLinks == InitContend /\ [][NextLinks]_vars

-----------------------------------------------------------------------------
(* update, undo and redo called on StairsMap, with every action of the     *)
(* control layer.                                                          *)

MaxStairsHistory == 3

ST == <<">", " ">>

\* One character in a room of four cells, of which the last of the row is
\* the stairs.
StairsMap ==
    << <<WL, WL, WL, WL, WL>>,
       <<WL, C0, FL, ST, WL>>,
       <<WL, WL, FL, WL, WL>>,
       <<WL, WL, WL, WL, WL>> >>

UpdateStairs ==
    /\ Len(history) < MaxStairsHistory
    /\ UpdateWith(Actors(Self))

InitStairs == InitLevel(make_level(StairsMap))

NextStairs == UpdateStairs \/ Undo \/ Redo

SpecStairs == InitStairs /\ [][NextStairs]_vars

-----------------------------------------------------------------------------
(* The control system: one action for every arm of the match of control,   *)
(* each handling one input event. An event that completes the turn sends   *)
(* Turn::Act, on which the level is updated before the next event is       *)
(* handled; Undo and Redo send their turn at once.                         *)

MaxControlHistory == 2
MaxControlObjectId == 3

\* Character::can_push
can_push(character) == ~character.sliding

\* The abilities of a character, as the control system reads them.
Abilities(character) ==
    [can_push |-> can_push(character),
     can_summon |-> can_summon(character),
     can_return |-> can_return(character)]

\* The k-th character of character_ids, a BTreeSet, counting from 0:
\* Option<Id>.
NthCharacter(L, k) ==
    {id \in L.character_ids :
        Cardinality({j \in L.character_ids : j < id}) = k}

\* character_abilities[character_actions.len()]: Option<(Id, Abilities)>.
NextActor ==
    {[id |-> id, abilities |-> Abilities(character_by_id(Self, id))] :
        id \in NthCharacter(Self, Len(character_actions))}

LevelUnchanged ==
    UNCHANGED <<width, height, tiles, objects_by_id, object_ids_by_coords,
                character_ids, next_object_id, history, turn, status, lastOp,
                ret, dropped, waited>>

\* Indexing character_abilities out of bounds panics.
IndexPanics ==
    /\ status' = "panic"
    /\ UNCHANGED <<width, height, tiles, objects_by_id, object_ids_by_coords,
                   character_ids, next_object_id, history, turn, lastOp, ret,
                   dropped, waited, state_summoning, character_actions, sent>>

\* The actors of Turn::Act(actions).
ActorsOf(actions) ==
    [id \in {actions[i].id : i \in DOMAIN actions} |->
        actions[CHOOSE i \in DOMAIN actions : actions[i].id = id].action]

\* The arm of control `continue`s: nothing is sent.
Continue ==
    /\ sent' = None
    /\ UNCHANGED character_actions
    /\ LevelUnchanged

\* The end of the loop body of control: the action is sent and queued, and
\* when all characters have queued actions, the turn is sent.
Send(actor, action) ==
    LET queued == Append(character_actions,
                         [id |-> actor.id, action |-> action])
    IN /\ sent' = Some([id |-> actor.id, action |-> action,
                        abilities |-> actor.abilities])
       /\ state_summoning' = FALSE
       /\ IF Len(queued) = Cardinality(character_ids)
          THEN /\ character_actions' = << >>
               /\ Len(history) < MaxControlHistory
               /\ next_object_id
                     + Cardinality({i \in DOMAIN queued :
                                       queued[i].action.kind = "Summon"})
                       <= MaxControlObjectId
               /\ UpdateLevel(ActorsOf(queued))
          ELSE /\ character_actions' = queued
               /\ LevelUnchanged

\* (GameButton::Undo, ButtonState::Pressed)
PressUndo ==
    /\ status = "ok"
    /\ IF NextActor = None THEN IndexPanics
       ELSE /\ character_actions' = << >>
            /\ sent' = None
            /\ UNCHANGED state_summoning
            /\ UndoLevel

\* (GameButton::Redo, ButtonState::Pressed)
PressRedo ==
    /\ status = "ok"
    /\ IF NextActor = None THEN IndexPanics
       ELSE /\ character_actions' = << >>
            /\ sent' = None
            /\ UNCHANGED state_summoning
            /\ RedoLevel

\* (GameButton::Up | Left | Down | Right, ButtonState::Pressed)
PressDirection ==
    /\ status = "ok"
    /\ \E offset \in Offsets :
          IF NextActor = None THEN IndexPanics
          ELSE IF state_summoning
          THEN Send(Unwrap(NextActor), Summon(offset))
          ELSE IF Unwrap(NextActor).abilities.can_push
          THEN Send(Unwrap(NextActor), Push(offset))
          ELSE Continue /\ UNCHANGED state_summoning

\* (GameButton::Wait, ButtonState::Pressed)
PressWait ==
    /\ status = "ok"
    /\ IF NextActor = None THEN IndexPanics
       ELSE Send(Unwrap(NextActor), Wait)

\* (GameButton::Act, ButtonState::Pressed)
PressAct ==
    /\ status = "ok"
    /\ IF NextActor = None THEN IndexPanics
       ELSE IF Unwrap(NextActor).abilities.can_return
       THEN Send(Unwrap(NextActor), Return)
       ELSE /\ state_summoning' =
                  IF Unwrap(NextActor).abilities.can_summon
                  THEN TRUE ELSE state_summoning
            /\ Continue

\* (GameButton::Act, ButtonState::Released)
ReleaseAct ==
    /\ status = "ok"
    /\ IF NextActor = None THEN IndexPanics
       ELSE /\ state_summoning' = FALSE
            /\ Continue

\* The other events: the release of a button that is not Act.
OtherEvent ==
    /\ status = "ok"
    /\ IF NextActor = None THEN IndexPanics
       ELSE Continue /\ UNCHANGED state_summoning

InitControl == InitLevel(make_level(PortalMap))

NextControl ==
    \/ PressUndo
    \/ PressRedo
    \/ PressDirection
    \/ PressWait
    \/ PressAct
    \/ ReleaseAct
    \/ OtherEvent

SpecControl == InitControl /\ [][NextControl]_vars

-----------------------------------------------------------------------------
(* update called on the levels of the push tests of level.rs, each closed   *)
(* by a wall: every character pushes or waits.                             *)

MaxPushHistory == 1
MaxSubteamHistory == 2

WY == <<".", "Y">>

\* tests::two_can_push_two_wooden_crates, one_cannot_push_two_wooden_crates
TwoCratesMap ==
    << <<WL, WL, WL, WL, WL, WL, WL>>,
       <<WL, C0, C1g, WX, WX, FL, WL>>,
       <<WL, WL, WL, WL, WL, WL, WL>> >>

\* tests::two_can_push_steel_crate, one_cannot_push_steel_crate
SteelMap ==
    << <<WL, WL, WL, WL, WL, WL>>,
       <<WL, C0, C1g, WY, FL, WL>>,
       <<WL, WL, WL, WL, WL, WL>> >>

\* tests::one_can_push_wooden_crate, with a second character beyond a gap.
OneCrateMap ==
    << <<WL, WL, WL, WL, WL, WL, WL>>,
       <<WL, C0, WX, FL, C1g, FL, WL>>,
       <<WL, WL, WL, WL, WL, WL, WL>> >>

\* tests::opposing_teams_block, one_can_push_passive_character
OpposingMap ==
    << <<WL, WL, WL, WL, WL, WL, WL>>,
       <<WL, FL, C0, C1g, C2g, FL, WL>>,
       <<WL, WL, WL, WL, WL, WL, WL>> >>

\* tests::orthogonal_team_blocks, the downward team weighed down by crates.
OrthogonalMap ==
    << <<WL, WL, WL, WL>>,
       <<WL, FL, C0, WL>>,
       <<WL, C2g, C1g, WL>>,
       <<WL, FL, WX, WL>>,
       <<WL, FL, WX, WL>>,
       <<WL, FL, FL, WL>>,
       <<WL, WL, WL, WL>> >>

\* tests::blocked_orthogonal_pusher_blocks
BlockedOrthogonalMap ==
    << <<WL, WL, WL, WL>>,
       <<WL, C0, C1g, WL>>,
       <<WL, FL, WL, WL>>,
       <<WL, WL, WL, WL>> >>

\* tests::strong_cuts_weak
CutMap ==
    << <<WL, WL, WL, WL, WL, WL>>,
       <<WL, FL, FL, C0, FL, WL>>,
       <<WL, C1g, C2g, WX, FL, WL>>,
       <<WL, FL, FL, FL, FL, WL>>,
       <<WL, WL, WL, WL, WL, WL>> >>

\* tests::can_steal_from_blocked_team
StealMap ==
    << <<WL, WL, WL, WL, WL>>,
       <<WL, FL, C0, FL, WL>>,
       <<WL, C1g, WX, FL, WL>>,
       <<WL, FL, WL, FL, WL>>,
       <<WL, WL, WL, WL, WL>> >>

\* tests::down_beats_right_left_up, right_beats_left_up, left_beats_up: four
\* characters around one free cell.
CrossMap ==
    << <<WL, WL, WL, WL, WL>>,
       <<WL, FL, C0, FL, WL>>,
       <<WL, C1g, FL, C3g, WL>>,
       <<WL, FL, C2g, FL, WL>>,
       <<WL, WL, WL, WL, WL>> >>

\* tests::strong_blocks_weak
StrongMap ==
    << <<WL, WL, WL, WL>>,
       <<WL, FL, C0, WL>>,
       <<WL, FL, WX, WL>>,
       <<WL, C1g, FL, WL>>,
       <<WL, FL, FL, WL>>,
       <<WL, WL, WL, WL>> >>

\* tests::loops_do_not_block
SquareMap ==
    << <<WL, WL, WL, WL>>,
       <<WL, C0, C1g, WL>>,
       <<WL, C3g, C2g, WL>>,
       <<WL, WL, WL, WL>> >>

PushMaps ==
    {TwoCratesMap, SteelMap, OneCrateMap, OpposingMap, OrthogonalMap,
     BlockedOrthogonalMap, CutMap, StealMap, CrossMap, StrongMap, SquareMap}

UpdatePush ==
    /\ Len(history) < MaxPushHistory
    /\ UpdateWith([character_ids -> PushActions])

InitPush == \E map \in PushMaps : InitLevel(make_level(map))

NextPush == UpdatePush

SpecPush == InitPush /\ [][NextPush]_vars

-----------------------------------------------------------------------------
(* update called on levels in which a team loses a crate to a team of       *)
(* higher priority while a later pusher of its line is left on its own.    *)

\* tests::strong_uncut_subteam_continues_on
StrongSubteamMap ==
    << <<WL, WL, WL, WL, WL, WL, WL>>,
       <<WL, WL, C0, WL, WL, WL, WL>>,
       <<WL, C1g, WX, C2g, WX, FL, WL>>,
       <<WL, WL, FL, WL, WL, WL, WL>>,
       <<WL, WL, WL, WL, WL, WL, WL>> >>

\* tests::weak_uncut_subteam_is_blocked
WeakSubteamMap ==
    << <<WL, WL, WL, WL, WL, WL, WL, WL, WL>>,
       <<WL, WL, WL, C0, WL, WL, WL, WL, WL>>,
       <<WL, C1g, C2g, WX, C3g, WX, WX, FL, WL>>,
       <<WL, WL, WL, FL, WL, WL, WL, WL, WL>>,
       <<WL, WL, WL, WL, WL, WL, WL, WL, WL>> >>

SubteamMaps == {StrongSubteamMap, WeakSubteamMap}

InitSubteam == \E map \in SubteamMaps : InitLevel(make_level(map))

UpdateSubteam ==
    /\ Len(history) < MaxSubteamHistory
    /\ UpdateWith([character_ids -> PushActions])

NextSubteam == UpdateSubteam \/ Undo \/ Redo

SpecSubteam == InitSubteam /\ [][NextSubteam]_vars

-----------------------------------------------------------------------------
(* Claims.                                                                 *)

\* Every object of the table is indexed under its own coords and every
\* index entry points to an object standing on the key.
IndexMirrorsObjects(L) ==
    /\ \A id \in DOMAIN L.objects_by_id :
          /\ L.objects_by_id[id].coords \in DOMAIN L.object_ids_by_coords
          /\ L.object_ids_by_coords[L.objects_by_id[id].coords] = id
    /\ \A coords \in DOMAIN L.object_ids_by_coords :
          /\ L.object_ids_by_coords[coords] \in DOMAIN L.objects_by_id
          /\ L.objects_by_id[L.object_ids_by_coords[coords]].coords = coords

\* No two objects of the table stand on the same cell.
NoSharedCell(L) ==
    \A a, b \in DOMAIN L.objects_by_id :
        a # b => L.objects_by_id[a].coords # L.objects_by_id[b].coords

\* C1: after any sequence of update, undo and redo on a level built by
\* make_level, the coordinate index mirrors the object table and no two
\* objects occupy the same cell.
C1_IndexMirrorsObjects ==
    status = "ok" => IndexMirrorsObjects(Self) /\ NoSharedCell(Self)

\* C2: from every reachable level and for every list of actions (that meets
\* update's precondition), update followed by undo leaves a level equal to
\* the one before the update.
C2_UpdateUndoRestores ==
    status = "ok" =>
        \A actors \in Actors(Self) : \A out \in update(Self, actors) :
            (~out.panic /\ ~out.hang /\ SummonsDisjoint(out.change)) =>
                \A u \in undo(out.L) : ~u.panic /\ LevelEq(u.L, Self)

\* C3: update, then undo, then redo leaves the level equal to the state
\* right after the update, with the turn cursor at its value after the update.
C3_UpdateUndoRedoRestores ==
    (lastOp = "update" /\ status = "ok") =>
        \A u \in undo(Self) :
            /\ ~u.panic
            /\ u.ret = Some(history[turn].reverse)
            /\ \A r \in redo(u.L) :
                  /\ ~r.panic
                  /\ r.ret = Some(history[turn].forward)
                  /\ LevelEq(r.L, Self)
                  /\ r.L.turn = turn

\* A redo that re-applied an undone turn in which a character was summoned.
C3_Witness ==
    /\ lastOp = "redo"
    /\ status = "ok"
    /\ ret # None
    /\ Unwrap(ret).summonings # EmptyMap

\* C4: update discards the redo branch: right after any update the history
\* ends at the turn cursor, its last entry is the change the update
\* returned, and the next redo returns None.
C4_UpdateDiscardsRedoBranch ==
    (lastOp = "update" /\ status = "ok") =>
        /\ Len(history) = turn
        /\ ret = Some(history[turn].forward)
        /\ \A r \in redo(Self) : r.ret = None /\ ~r.panic /\ r.L = Self

\* An update called after an undo: it truncated entries of the history.
C4_Witness ==
    /\ lastOp = "update"
    /\ status = "ok"
    /\ dropped > 0

\* C5: every call of update returns: the blocking pass of get_moves empties
\* its work queue, also when teams form a cycle and one of them is blocked.
C5_UpdateReturns == status # "hang"

\* C6: undo called at turn 0 returns None and changes nothing.
C6_UndoAtStartIsNoOp ==
    (status = "ok" /\ turn = 0) =>
        undo(Self) = {[L |-> Self, panic |-> FALSE, ret |-> None]}

\* An undo that returned None although the history holds entries.
C6_Witness ==
    /\ lastOp = "undo"
    /\ status = "ok"
    /\ ret = None
    /\ turn = 0
    /\ history # << >>

\* C7: redo called with the cursor at the end of the history returns None
\* and changes nothing.
C7_RedoAtEndIsNoOp ==
    (status = "ok" /\ turn = Len(history)) =>
        redo(Self) = {[L |-> Self, panic |-> FALSE, ret |-> None]}

\* A redo that returned None although the history holds entries.
C7_Witness ==
    /\ lastOp = "redo"
    /\ status = "ok"
    /\ ret = None
    /\ turn = Len(history)
    /\ history # << >>

\* C8: an update in which every action is Wait returns a Change with empty
\* moves, returnings and summonings and leaves tiles and objects as they were.
C8_AllWaitChangesNothing ==
    status = "ok" =>
        \A out \in update(Self, AllWait(Self)) :
            /\ ~out.panic /\ ~out.hang
            /\ out.change = EmptyChange
            /\ LevelEq(out.L, Self)
            /\ out.L.tiles = tiles
            /\ out.L.objects_by_id = objects_by_id
            /\ out.L.object_ids_by_coords = object_ids_by_coords

\* An all-Wait update made while a character stands on its own portal and
\* another character is on the level.
C8_Witness ==
    /\ lastOp = "update"
    /\ status = "ok"
    /\ waited
    /\ Cardinality(character_ids) >= 2
    /\ \E id \in character_ids :
          character_by_id(Self, id).portal_coords = Some(objects_by_id[id].coords)

\* The actor lists with at most one summoner in which a character summons
\* or a character that stands on its own portal returns.
PhasedActors(L) ==
    {actors \in Actors(L) :
        /\ Cardinality({id \in L.character_ids :
                           actors[id].kind = "Summon"}) <= 1
        /\ \E id \in L.character_ids :
              \/ actors[id].kind = "Summon"
              \/ /\ actors[id].kind = "Return"
                 /\ character_by_id(L, id).portal_coords
                        = Some(L.objects_by_id[id].coords)}

\* Where an object of the level stands once the returns and pushes of
\* change are applied, for the objects that did not return.
CoordsAfterPushes(change, id) ==
    IF id \in DOMAIN change.moves THEN change.moves[id].to_coords
    ELSE objects_by_id[id].coords

OccupiedAfterPushes(change) ==
    {CoordsAfterPushes(change, id) :
        id \in DOMAIN objects_by_id \ DOMAIN change.returnings}

\* A floor cell without portal and without object once the returns (which
\* close the returner's portal) and the pushes of change are applied.
OpenAfterPushes(change, coords) ==
    /\ coords \notin OccupiedAfterPushes(change)
    /\ \/ tile_at(Self, coords) = Floor(None)
       \/ \E id \in DOMAIN change.returnings :
             change.returnings[id].returner.coords = coords

\* The open cells (after the pushes) that lie k steps from start.
OpenOnRay(change, start, offset, k) ==
    LET coords == AddOffset(start, MulOffset(k, offset))
    IN coords \in GridCells(Self) /\ OpenAfterPushes(change, coords)

\* The farthest of them, as an Option.
FarthestOpenAfterPushes(change, start, offset) ==
    LET reach == width + height
        ks == {k \in 1 .. reach : OpenOnRay(change, start, offset, k)}
    IN {AddOffset(start, MulOffset(k, offset)) :
           k \in {j \in ks : \A i \in ks : i <= j}}

\* The phases of one update run in the order return, push, summon, each on
\* the state the previous one left: a pusher (if alone: the only pusher of
\* the turn) whose next cell holds a character that returns this turn moves
\* into that cell; and a summoner summons exactly to the farthest cell of
\* its ray that is open once this turn's returns and pushes are applied.
PhasesInOrder(alone) ==
    status = "ok" =>
        \A actors \in PhasedActors(Self) : \A out \in update(Self, actors) :
            (~out.panic /\ ~out.hang) =>
                /\ \A p \in character_ids :
                      (/\ actors[p].kind = "Push"
                       /\ alone =>
                             \A q \in character_ids \ {p} :
                                 actors[q].kind # "Push"
                       /\ \E r \in DOMAIN out.change.returnings :
                             out.change.returnings[r].returner.coords =
                                AddOffset(objects_by_id[p].coords,
                                          actors[p].offset))
                      => /\ p \in DOMAIN out.change.moves
                         /\ out.change.moves[p].to_coords =
                               AddOffset(objects_by_id[p].coords,
                                         actors[p].offset)
                /\ \A s \in character_ids :
                      actors[s].kind = "Summon" =>
                         LET dest == FarthestOpenAfterPushes(out.change,
                                         CoordsAfterPushes(out.change, s),
                                         actors[s].offset)
                         IN IF dest = None
                            THEN s \notin DOMAIN out.change.summonings
                            ELSE /\ s \in DOMAIN out.change.summonings
                                 /\ Some(out.change.summonings[s].summon.coords)
                                       = dest

\* C9 as stated: the phases run in the order return, push, summon; every
\* pusher whose next cell is occupied only by a character that returns this
\* turn moves into that cell, and a summon's destination is chosen from the
\* cells unoccupied after this turn's pushes.
C9_EveryPusherTakesVacatedCell == PhasesInOrder(FALSE)

\* C9 amended: the same, for a pusher that is the only pusher of the turn
\* (two pushers that head for the cell of one returner contend for it in the
\* push phase, and one of them stays).
C9_PhasesInOrder == PhasesInOrder(TRUE)

\* A turn in which a character returned and a pusher took its cell.
C9_Witness ==
    /\ lastOp = "update"
    /\ status = "ok"
    /\ ret # None
    /\ \E r \in DOMAIN Unwrap(ret).returnings :
          \E p \in DOMAIN Unwrap(ret).moves :
             Unwrap(ret).moves[p].to_coords =
                Unwrap(ret).returnings[r].returner.coords

\* A turn in which a character was summoned to a cell that a push of the
\* same turn had vacated.
C9_WitnessSummon ==
    /\ lastOp = "update"
    /\ status = "ok"
    /\ ret # None
    /\ \E s \in DOMAIN Unwrap(ret).summonings :
          \E p \in DOMAIN Unwrap(ret).moves :
             Unwrap(ret).moves[p].from_coords =
                Unwrap(ret).summonings[s].summon.coords

\* C10: update is deterministic: whatever the order of the actors list and
\* the iteration order of the hash maps, one level and one set of (id,
\* action) pairs (that meets update's precondition) give one Change and
\* equal resulting levels.
C10_UpdateDeterministic ==
    status = "ok" =>
        \A actors \in Turns(Self) : \A a, b \in update(Self, actors) :
            (SummonsDisjoint(a.change) /\ SummonsDisjoint(b.change)) =>
            /\ a.panic = b.panic
            /\ a.hang = b.hang
            /\ a.change = b.change
            /\ LevelEq(a.L, b.L)

-----------------------------------------------------------------------------
(* Claims about the push phase.                                            *)

\* The actor lists in which every character pushes or waits.
PushTurns(L) == [L.character_ids -> PushActions]

\* The characters that push in actors.
PushersOf(actors) == {id \in DOMAIN actors : actors[id].kind = "Push"}

\* The objects of the table that stand on coords.
ObjectsAt(L, coords) ==
    {id \in DOMAIN L.objects_by_id : L.objects_by_id[id].coords = coords}

\* coords is a cell of the grid that is no wall and holds no object.
EmptyFloor(L, coords) ==
    /\ TileInBounds(L, coords)
    /\ tile_at(L, coords) # Wall
    /\ ObjectsAt(L, coords) = {}

\* The cell k steps from coords in the direction offset.
Ahead(coords, offset, k) == AddOffset(coords, MulOffset(k, offset))

\* The only object on the cell k steps ahead of pusher p is x, of kind kind.
HoldsOnly(L, p, offset, k, x, kind) ==
    /\ ObjectsAt(L, Ahead(L.objects_by_id[p].coords, offset, k)) = {x}
    /\ L.objects_by_id[x].object.kind = kind

\* The update out of L returned and moved object id one cell by offset.
StepsBy(L, out, id, offset) ==
    /\ ~out.panic /\ ~out.hang
    /\ id \in DOMAIN out.change.moves
    /\ out.change.moves[id].from_coords = L.objects_by_id[id].coords
    /\ out.change.moves[id].to_coords
          = AddOffset(L.objects_by_id[id].coords, offset)
    /\ out.L.objects_by_id[id].coords
          = AddOffset(L.objects_by_id[id].coords, offset)
    /\ object_at(out.L, AddOffset(L.objects_by_id[id].coords, offset))
          = Some(L.objects_by_id[id].object)

\* The update out of L returned and left object id where it was.
StaysPut(L, out, id) ==
    /\ ~out.panic /\ ~out.hang
    /\ id \notin DOMAIN out.change.moves
    /\ out.L.objects_by_id[id].coords = L.objects_by_id[id].coords

\* The update out of L moved exactly the objects ids, each one cell by
\* offset.
MovesExactly(L, out, ids, offset) ==
    /\ ~out.panic /\ ~out.hang
    /\ DOMAIN out.change.moves = ids
    /\ \A id \in ids : StepsBy(L, out, id, offset)

\* The update out of L returned and moved nothing.
MovesNothing(L, out) ==
    /\ ~out.panic /\ ~out.hang
    /\ out.change.moves = EmptyMap
    /\ LevelEq(out.L, L)

\* The levels the last update can have started from, when it returned.
Before ==
    IF lastOp = "update" /\ status = "ok"
    THEN {u.L : u \in {v \in undo(Self) : ~v.panic}}
    ELSE {}

\* p is the only pusher of the turn; x, of weight 1, is the only object on
\* the cell ahead of p, and the cell beyond x is empty floor.
OnePusherOneObject(L, actors, p, x) ==
    /\ PushersOf(actors) = {p}
    /\ ObjectsAt(L, L.objects_by_id[p].coords) = {p}
    /\ ObjectsAt(L, Ahead(L.objects_by_id[p].coords, actors[p].offset, 1))
          = {x}
    /\ weight(L.objects_by_id[x].object) = 1
    /\ EmptyFloor(L, Ahead(L.objects_by_id[p].coords, actors[p].offset, 2))

\* p and q, q on the cell ahead of p, are the only pushers of the turn and
\* push the same way; ahead of q stand the objects of load in a row (two
\* wooden crates, or one steel crate), and the cell beyond them is empty
\* floor.
TwoPushersLoad(L, actors, p, q, load) ==
    /\ p # q
    /\ PushersOf(actors) = {p, q}
    /\ actors[p].offset = actors[q].offset
    /\ ObjectsAt(L, L.objects_by_id[p].coords) = {p}
    /\ ObjectsAt(L, Ahead(L.objects_by_id[p].coords, actors[p].offset, 1))
          = {q}
    /\ \/ /\ Len(load) = 2
          /\ HoldsOnly(L, p, actors[p].offset, 2, load[1], "WoodenCrate")
          /\ HoldsOnly(L, p, actors[p].offset, 3, load[2], "WoodenCrate")
       \/ /\ Len(load) = 1
          /\ HoldsOnly(L, p, actors[p].offset, 2, load[1], "SteelCrate")
    /\ EmptyFloor(L, Ahead(L.objects_by_id[p].coords, actors[p].offset,
                           Len(load) + 2))

\* The loads of one or two objects of L.
Loads(L) ==
    {<<x>> : x \in DOMAIN L.objects_by_id}
        \cup {<<x, y>> : x \in DOMAIN L.objects_by_id,
                         y \in DOMAIN L.objects_by_id}

\* C11: a single pusher with empty floor beyond exactly one object of
\* weight 1 moves one cell together with that object, and nothing else
\* moves; two adjacent pushers pushing the same way move one cell together
\* with the two wooden crates, or the one steel crate, ahead of them.
C11_PushersMoveTheirLoad ==
    status = "ok" =>
        \A actors \in PushTurns(Self) :
            LET pushers == PushersOf(actors)
            IN /\ Cardinality(pushers) = 1 =>
                     \A p \in pushers : \A x \in DOMAIN objects_by_id :
                         OnePusherOneObject(Self, actors, p, x) =>
                             \A out \in update(Self, actors) :
                                 MovesExactly(Self, out, {p, x},
                                              actors[p].offset)
               /\ Cardinality(pushers) = 2 =>
                     \A p, q \in pushers : \A load \in Loads(Self) :
                         TwoPushersLoad(Self, actors, p, q, load) =>
                             \A out \in update(Self, actors) :
                                 MovesExactly(Self, out,
                                              {p, q} \cup Range(load),
                                              actors[p].offset)

\* An update in which two adjacent pushers moved a steel crate.
C11_Witness ==
    \E L \in Before : \E actors \in PushTurns(L) :
        \E p, q \in PushersOf(actors) : \E x \in DOMAIN L.objects_by_id :
            /\ TwoPushersLoad(L, actors, p, q, <<x>>)
            /\ \E out \in update(L, actors) :
                  /\ ret = Some(out.change)
                  /\ LevelEq(out.L, Self)

\* An update in which a single pusher moved a waiting character.
C11_WitnessPassiveCharacter ==
    \E L \in Before : \E actors \in PushTurns(L) :
        \E p \in PushersOf(actors) : \E x \in L.character_ids :
            /\ OnePusherOneObject(L, actors, p, x)
            /\ \E out \in update(L, actors) :
                  /\ ret = Some(out.change)
                  /\ LevelEq(out.L, Self)
\* The greatest length of a line of cells in L.
Reach(L) == IF L.width > L.height THEN L.width ELSE L.height

\* The k cells ahead of pusher p hold one object each.
LineOf(L, actors, p, k) ==
    \A i \in 1 .. k :
        Cardinality(ObjectsAt(L, Ahead(L.objects_by_id[p].coords,
                                       actors[p].offset, i))) = 1

\* The object on the cell i steps ahead of pusher p.
ObjectAhead(L, actors, p, i) ==
    CHOOSE x \in DOMAIN L.objects_by_id :
        L.objects_by_id[x].coords
            = Ahead(L.objects_by_id[p].coords, actors[p].offset, i)

\* The strength left to the line that starts at pusher p after the objects
\* on the k cells ahead of p: 1 for p, 2 more for every pusher that pushes
\* the same way, less the weight of every object.
RECURSIVE StrengthAfter(_, _, _, _)
StrengthAfter(L, actors, p, k) ==
    IF k = 0 THEN 1
    ELSE LET x == ObjectAhead(L, actors, p, k)
         IN StrengthAfter(L, actors, p, k - 1)
                + (IF x \in PushersOf(actors)
                      /\ actors[x].offset = actors[p].offset
                   THEN 2 ELSE 0)
                - weight(L.objects_by_id[x].object)

\* All pushers of the turn push the same way.
SameWay(actors) ==
    \A p, q \in PushersOf(actors) : actors[p].offset = actors[q].offset

\* The pushers of the turn are p and pushers pushing the same way that
\* stand on the first k - 1 cells ahead of p.
OneLine(L, actors, p, k) ==
    \A q \in PushersOf(actors) :
        /\ actors[q].offset = actors[p].offset
        /\ ObjectsAt(L, L.objects_by_id[q].coords) = {q}
        /\ \E i \in 0 .. k - 1 :
              L.objects_by_id[q].coords
                  = Ahead(L.objects_by_id[p].coords, actors[p].offset, i)

\* The line that starts at pusher p is out of strength at the object k
\* cells ahead, and not before.
OutOfStrengthAt(L, actors, p, k) ==
    /\ LineOf(L, actors, p, k)
    /\ \A i \in 0 .. k - 1 : StrengthAfter(L, actors, p, i) >= 0
    /\ StrengthAfter(L, actors, p, k) < 0

\* C12: when the strength of a line of pushers and objects drops below zero
\* at one of its objects and every pusher of the turn belongs to the line,
\* the update moves nothing and leaves the level as it was.
C12_WeakTeamMovesNothing ==
    status = "ok" =>
        \A actors \in PushTurns(Self) :
            SameWay(actors) =>
                \A p \in PushersOf(actors) : \A k \in 1 .. Reach(Self) :
                    (OneLine(Self, actors, p, k)
                        /\ OutOfStrengthAt(Self, actors, p, k)) =>
                        \A out \in update(Self, actors) :
                            MovesNothing(Self, out)

\* An update in which a pusher with a crate it could have moved alone was
\* stopped by a second object behind the crate.
C12_Witness ==
    \E L \in Before : \E actors \in PushTurns(L) :
        \E p \in PushersOf(actors) :
            /\ OneLine(L, actors, p, 2)
            /\ OutOfStrengthAt(L, actors, p, 2)
            /\ \E out \in update(L, actors) :
                  /\ ret = Some(out.change)
                  /\ LevelEq(out.L, Self)
\* The line ahead of pusher p reaches, k cells ahead, a pusher that pushes
\* the opposite way; the objects on the cells between wait or push the way
\* p pushes.
OpposedAt(L, actors, p, k) ==
    /\ ObjectsAt(L, L.objects_by_id[p].coords) = {p}
    /\ LineOf(L, actors, p, k)
    /\ \A i \in 1 .. k - 1 :
          LET x == ObjectAhead(L, actors, p, i)
          IN x \in PushersOf(actors) => actors[x].offset = actors[p].offset
    /\ LET y == ObjectAhead(L, actors, p, k)
       IN /\ y \in PushersOf(actors)
          /\ actors[y].offset = NegOffset(actors[p].offset)

\* Every pusher of the turn stands on p's cell or on one of the k cells
\* ahead of p.
AllOnLine(L, actors, p, k) ==
    \A q \in PushersOf(actors) :
        /\ ObjectsAt(L, L.objects_by_id[q].coords) = {q}
        /\ \E i \in 0 .. k :
              L.objects_by_id[q].coords
                  = Ahead(L.objects_by_id[p].coords, actors[p].offset, i)

\* C13: a pusher whose line reaches a pusher pushing the opposite way does
\* not move; when the pushers of the turn all stand in that line (as in
\* Right, Right, Left without a gap), no object moves.
C13_OpposedTeamIsBlocked ==
    status = "ok" =>
        \A actors \in PushTurns(Self) : \A p, y \in PushersOf(actors) :
            actors[y].offset = NegOffset(actors[p].offset) =>
                \A k \in 1 .. Reach(Self) :
                    (/\ objects_by_id[y].coords
                          = Ahead(objects_by_id[p].coords, actors[p].offset, k)
                     /\ OpposedAt(Self, actors, p, k)) =>
                        \A out \in update(Self, actors) :
                            /\ StaysPut(Self, out, p)
                            /\ AllOnLine(Self, actors, p, k) =>
                                  MovesNothing(Self, out)

\* An update of two pushers and, right ahead of them, a third one pushing
\* against them, with free floor at both ends of the row.
C13_Witness ==
    \E L \in Before : \E actors \in PushTurns(L) :
        \E p \in PushersOf(actors) :
            /\ OpposedAt(L, actors, p, 2)
            /\ AllOnLine(L, actors, p, 2)
            /\ ObjectAhead(L, actors, p, 1) \in PushersOf(actors)
            /\ EmptyFloor(L, Ahead(L.objects_by_id[p].coords,
                                   actors[p].offset, 3))
            /\ EmptyFloor(L, Ahead(L.objects_by_id[p].coords,
                                   actors[p].offset, -1))
            /\ \E out \in update(L, actors) :
                  /\ ret = Some(out.change)
                  /\ LevelEq(out.L, Self)
\* The pusher on the cell that pusher p pushes into, if there is one.
NextPusher(L, actors, p) ==
    {q \in PushersOf(actors) :
        /\ ObjectsAt(L, AddOffset(L.objects_by_id[p].coords,
                                  actors[p].offset)) = {q}
        /\ ObjectsAt(L, L.objects_by_id[p].coords) = {p}}

\* The pusher reached from p after n steps from a pusher to the pusher on
\* the cell it pushes into.
RECURSIVE Follow(_, _, _, _)
Follow(L, actors, p, n) ==
    IF n = 0 THEN {p}
    ELSE UNION {NextPusher(L, actors, q) : q \in Follow(L, actors, p, n - 1)}

\* p belongs to a closed cycle of pushers, each pushing into the cell of
\* the next; two pushers facing each other are no cycle.
OnCycle(L, actors, p) ==
    /\ p \in PushersOf(actors)
    /\ Follow(L, actors, p, 2) # {p}
    /\ \E n \in 3 .. Cardinality(PushersOf(actors)) :
          Follow(L, actors, p, n) = {p}

\* C14: every pusher of a closed cycle of pushers, each pushing into the
\* cell of the next one, moves one step in the turn.
C14_CycleOfPushersRotates ==
    status = "ok" =>
        \A actors \in PushTurns(Self) : \A p \in PushersOf(actors) :
            OnCycle(Self, actors, p) =>
                \A out \in update(Self, actors) :
                    StepsBy(Self, out, p, actors[p].offset)

\* C14, for turns in which only the pushers of the cycle push.
C14_LoneCycleRotates ==
    status = "ok" =>
        \A actors \in PushTurns(Self) : \A p \in PushersOf(actors) :
            (OnCycle(Self, actors, p)
                /\ \A q \in PushersOf(actors) : OnCycle(Self, actors, q)) =>
                \A out \in update(Self, actors) :
                    StepsBy(Self, out, p, actors[p].offset)
\* The line that starts at pusher p has n members: the objects on the
\* n - 1 cells ahead of p wait or push the way p pushes, the strength of
\* the line never drops below zero, and the cell beyond is empty floor.
ClearLine(L, actors, p, n) ==
    /\ EmptyFloor(L, Ahead(L.objects_by_id[p].coords, actors[p].offset, n))
    /\ ObjectsAt(L, L.objects_by_id[p].coords) = {p}
    /\ LineOf(L, actors, p, n - 1)
    /\ \A i \in 1 .. n - 1 :
          LET x == ObjectAhead(L, actors, p, i)
          IN /\ x \in PushersOf(actors) =>
                   actors[x].offset = actors[p].offset
             /\ StrengthAfter(L, actors, p, i) >= 0

\* The members of the line of n objects that starts at pusher p.
Members(L, actors, p, n) ==
    {p} \cup {ObjectAhead(L, actors, p, i) : i \in 1 .. n - 1}

\* The lines of na objects from pusher a and of nb objects from pusher b
\* push different ways into the same empty cell, and every pusher of the
\* turn is a member of one of the two lines.
Contend(L, actors, a, na, b, nb) ==
    /\ a # b
    /\ actors[a].offset # actors[b].offset
    /\ Ahead(L.objects_by_id[a].coords, actors[a].offset, na)
          = Ahead(L.objects_by_id[b].coords, actors[b].offset, nb)
    /\ ClearLine(L, actors, a, na)
    /\ ClearLine(L, actors, b, nb)
    /\ PushersOf(actors) \subseteq
          Members(L, actors, a, na) \cup Members(L, actors, b, nb)

\* The pushers of the turn push in exactly two directions.
TwoWays(actors) ==
    Cardinality({actors[p].offset : p \in PushersOf(actors)}) = 2

\* Down beats Right, Right beats Left, Left beats Up.
Beats(o1, o2) ==
    \/ o1 = DOWN /\ o2 \in {RIGHT, LEFT, UP}
    \/ o1 = RIGHT /\ o2 \in {LEFT, UP}
    \/ o1 = LEFT /\ o2 = UP

\* C15: when two teams of equal strength and different offsets would both
\* move into the same empty cell, the team whose offset is the greater one
\* (Down over Right over Left over Up) moves and the other team stays.
C15_GreaterOffsetWinsTie ==
    status = "ok" =>
        \A actors \in PushTurns(Self) :
            TwoWays(actors) =>
                \A a, b \in PushersOf(actors) :
                    Beats(actors[a].offset, actors[b].offset) =>
                        \A na \in 1 .. Reach(Self) :
                            ClearLine(Self, actors, a, na) =>
                                \A nb \in 1 .. Reach(Self) :
                                    (/\ Contend(Self, actors, a, na, b, nb)
                                     /\ StrengthAfter(Self, actors, a, na - 1)
                                           = StrengthAfter(Self, actors, b,
                                                           nb - 1)) =>
                                        \A out \in update(Self, actors) :
                                            MovesExactly(Self, out,
                                                Members(Self, actors, a, na),
                                                actors[a].offset)

\* An update in which a pusher going left took a cell from one going up.
C15_Witness ==
    \E L \in Before : \E actors \in PushTurns(L) :
        \E a, b \in PushersOf(actors) : \E na, nb \in 1 .. Reach(L) :
            /\ actors[a].offset = LEFT
            /\ actors[b].offset = UP
            /\ Contend(L, actors, a, na, b, nb)
            /\ StrengthAfter(L, actors, a, na - 1)
                  = StrengthAfter(L, actors, b, nb - 1)
            /\ \E out \in update(L, actors) :
                  /\ ret = Some(out.change)
                  /\ LevelEq(out.L, Self)
\* C16: when two teams of different strength would both move into the same
\* empty cell, the team with the greater strength moves and the weaker one
\* stays, whatever their directions.
C16_StrongerTeamWins ==
    status = "ok" =>
        \A actors \in PushTurns(Self) :
            TwoWays(actors) =>
                \A a, b \in PushersOf(actors) :
                    \A na \in 1 .. Reach(Self) :
                        ClearLine(Self, actors, a, na) =>
                            \A nb \in 1 .. Reach(Self) :
                                (/\ Contend(Self, actors, a, na, b, nb)
                                 /\ StrengthAfter(Self, actors, a, na - 1)
                                       > StrengthAfter(Self, actors, b,
                                                       nb - 1)) =>
                                    \A out \in update(Self, actors) :
                                        MovesExactly(Self, out,
                                            Members(Self, actors, a, na),
                                            actors[a].offset)

\* An update in which the stronger team took the cell although the offset
\* of the weaker team is the greater one.
C16_Witness ==
    \E L \in Before : \E actors \in PushTurns(L) :
        \E a, b \in PushersOf(actors) : \E na, nb \in 1 .. Reach(L) :
            /\ Beats(actors[b].offset, actors[a].offset)
            /\ Contend(L, actors, a, na, b, nb)
            /\ StrengthAfter(L, actors, a, na - 1)
                  > StrengthAfter(L, actors, b, nb - 1)
            /\ \E out \in update(L, actors) :
                  /\ ret = Some(out.change)
                  /\ LevelEq(out.L, Self)
\* The objects on the n - 1 cells ahead of pusher p wait or push the way p
\* pushes, and the strength of the line never drops below zero.
SolidLine(L, actors, p, n) ==
    /\ ObjectsAt(L, L.objects_by_id[p].coords) = {p}
    /\ LineOf(L, actors, p, n - 1)
    /\ \A i \in 1 .. n - 1 :
          LET x == ObjectAhead(L, actors, p, i)
          IN /\ x \in PushersOf(actors) =>
                   actors[x].offset = actors[p].offset
             /\ StrengthAfter(L, actors, p, i) >= 0

\* Pusher q pushes the way pusher b does, at a right angle to pusher a.
RightAngle(actors, a, b, q) ==
    /\ a # b /\ q # b /\ q # a
    /\ actors[q].offset = actors[b].offset
    /\ actors[b].offset
          \notin {actors[a].offset, NegOffset(actors[a].offset)}

\* The line of na objects from pusher a pushes into the cell of q, a pusher
\* in the tail of the line of nb objects from pusher b, which pushes at a
\* right angle to a and has empty floor ahead; every pusher of the turn
\* is a member of one of the two lines.
PushesIntoTail(L, actors, a, na, b, nb, q) ==
    /\ RightAngle(actors, a, b, q)
    /\ L.objects_by_id[q].coords
          = Ahead(L.objects_by_id[a].coords, actors[a].offset, na)
    /\ \E i \in 1 .. nb - 1 :
          L.objects_by_id[q].coords
              = Ahead(L.objects_by_id[b].coords, actors[b].offset, i)
    /\ ObjectsAt(L, L.objects_by_id[q].coords) = {q}
    /\ SolidLine(L, actors, a, na)
    /\ ClearLine(L, actors, b, nb)
    /\ PushersOf(actors) \subseteq
          Members(L, actors, a, na) \cup Members(L, actors, b, nb)

\* C17: a team that pushes into the cell of a pusher in the tail of a team
\* moving at a right angle collides with that team whether it stays or
\* moves: it stays whatever the strengths, and the other team moves.
C17_TeamIntoTailIsBlocked ==
    status = "ok" =>
        \A actors \in PushTurns(Self) :
            TwoWays(actors) =>
                \A a, b, q \in PushersOf(actors) :
                    RightAngle(actors, a, b, q) =>
                        \A na, nb \in 1 .. Reach(Self) :
                            PushesIntoTail(Self, actors, a, na, b, nb, q) =>
                                \A out \in update(Self, actors) :
                                    MovesExactly(Self, out,
                                        Members(Self, actors, b, nb),
                                        actors[b].offset)

\* An update in which the team pushing into the tail was the stronger one.
C17_Witness ==
    \E L \in Before : \E actors \in PushTurns(L) :
        /\ TwoWays(actors)
        /\ \E a, b, q \in PushersOf(actors) :
              /\ RightAngle(actors, a, b, q)
              /\ \E na, nb \in 1 .. Reach(L) :
                    /\ PushesIntoTail(L, actors, a, na, b, nb, q)
                    /\ StrengthAfter(L, actors, a, na - 1)
                          > StrengthAfter(L, actors, b, nb - 1)
                    /\ \E out \in update(L, actors) :
                          /\ ret = Some(out.change)
                          /\ LevelEq(out.L, Self)
\* The cell ahead of pusher p holds q, a pusher that pushes at a right
\* angle to p, and nothing else.
FacesOrthogonal(L, actors, p, q) ==
    /\ p # q
    /\ actors[q].offset
          \notin {actors[p].offset, NegOffset(actors[p].offset)}
    /\ ObjectsAt(L, L.objects_by_id[p].coords) = {p}
    /\ ObjectsAt(L, AddOffset(L.objects_by_id[p].coords, actors[p].offset))
          = {q}

\* C18: a pusher whose next cell holds an orthogonal pusher does not move
\* in a turn in which that orthogonal pusher does not move.
C18_StaysBehindBlockedPusher ==
    status = "ok" =>
        \A actors \in PushTurns(Self) : \A p, q \in PushersOf(actors) :
            FacesOrthogonal(Self, actors, p, q) =>
                \A out \in update(Self, actors) :
                    (~out.panic /\ ~out.hang /\ StaysPut(Self, out, q)) =>
                        StaysPut(Self, out, p)

\* C18, for an orthogonal pusher that faces a wall.
C18_StaysBehindPusherAtWall ==
    status = "ok" =>
        \A actors \in PushTurns(Self) : \A p, q \in PushersOf(actors) :
            (/\ FacesOrthogonal(Self, actors, p, q)
             /\ tile_at(Self, AddOffset(objects_by_id[q].coords,
                                        actors[q].offset)) = Wall) =>
                \A out \in update(Self, actors) :
                    (~out.panic /\ ~out.hang) =>
                        StaysPut(Self, out, q) /\ StaysPut(Self, out, p)
\* The lines of na objects from pusher a and of nb objects from pusher b
\* push different ways, both have empty floor ahead and both hold the
\* waiting object x; every pusher of the turn is a member of one of the two
\* lines.
ClaimSame(L, actors, a, na, b, nb, x) ==
    /\ a # b
    /\ actors[a].offset # actors[b].offset
    /\ x \notin PushersOf(actors)
    /\ \E i \in 1 .. na - 1 :
          L.objects_by_id[x].coords
              = Ahead(L.objects_by_id[a].coords, actors[a].offset, i)
    /\ \E j \in 1 .. nb - 1 :
          L.objects_by_id[x].coords
              = Ahead(L.objects_by_id[b].coords, actors[b].offset, j)
    /\ ClearLine(L, actors, a, na)
    /\ ClearLine(L, actors, b, nb)
    /\ PushersOf(actors) \subseteq
          Members(L, actors, a, na) \cup Members(L, actors, b, nb)

\* The line from a has priority over the line from b: greater strength,
\* then greater offset.
HasPriority(L, actors, a, na, b, nb) ==
    \/ StrengthAfter(L, actors, a, na - 1) > StrengthAfter(L, actors, b, nb - 1)
    \/ /\ StrengthAfter(L, actors, a, na - 1)
            = StrengthAfter(L, actors, b, nb - 1)
       /\ Beats(actors[a].offset, actors[b].offset)

\* C19: when two teams with different offsets claim the same waiting
\* object, the team of higher priority moves together with the object and
\* the starting pusher of the other team does not move.
C19_HigherPriorityKeepsClaim ==
    status = "ok" =>
        \A actors \in PushTurns(Self) :
            TwoWays(actors) =>
                \A a, b \in PushersOf(actors) :
                    \A na \in 2 .. Reach(Self) :
                        ClearLine(Self, actors, a, na) =>
                            \A nb \in 2 .. Reach(Self) :
                                \A x \in DOMAIN objects_by_id :
                                    (/\ ClaimSame(Self, actors, a, na, b, nb, x)
                                     /\ HasPriority(Self, actors, a, na, b, nb))
                                    => \A out \in update(Self, actors) :
                                          /\ \A m \in Members(Self, actors,
                                                               a, na) :
                                                StepsBy(Self, out, m,
                                                        actors[a].offset)
                                          /\ StaysPut(Self, out, b)

\* An update in which the stronger team kept the object against a team
\* with the greater offset.
C19_Witness ==
    \E L \in Before : \E actors \in PushTurns(L) :
        /\ TwoWays(actors)
        /\ \E a, b \in PushersOf(actors) : \E na, nb \in 2 .. Reach(L) :
              /\ Beats(actors[b].offset, actors[a].offset)
              /\ \E x \in DOMAIN L.objects_by_id :
                    ClaimSame(L, actors, a, na, b, nb, x)
              /\ StrengthAfter(L, actors, a, na - 1)
                    > StrengthAfter(L, actors, b, nb - 1)
              /\ \E out \in update(L, actors) :
                    /\ ret = Some(out.change)
                    /\ LevelEq(out.L, Self)
\* The k - 1 cells ahead of pusher b hold one object each and the cell
\* after them is a wall.
WallLine(L, actors, b, k) ==
    /\ TileInBounds(L, Ahead(L.objects_by_id[b].coords, actors[b].offset, k))
    /\ tile_at(L, Ahead(L.objects_by_id[b].coords, actors[b].offset, k))
          = Wall
    /\ ObjectsAt(L, L.objects_by_id[b].coords) = {b}
    /\ LineOf(L, actors, b, k - 1)

\* The line from pusher b reaches a wall k cells ahead; the waiting object
\* x stands between b and the wall and is also held by the line of na
\* objects from pusher a, which pushes another way and has empty floor
\* ahead; every pusher of the turn is a member of the line from a or
\* stands between b and the wall and pushes the way b does.
StealsFrom(L, actors, a, na, b, k, x) ==
    /\ a # b
    /\ actors[a].offset # actors[b].offset
    /\ x \notin PushersOf(actors)
    /\ \E i \in 1 .. na - 1 :
          L.objects_by_id[x].coords
              = Ahead(L.objects_by_id[a].coords, actors[a].offset, i)
    /\ \E j \in 1 .. k - 1 :
          L.objects_by_id[x].coords
              = Ahead(L.objects_by_id[b].coords, actors[b].offset, j)
    /\ WallLine(L, actors, b, k)
    /\ ClearLine(L, actors, a, na)
    /\ \A q \in PushersOf(actors) \ Members(L, actors, a, na) :
          /\ actors[q].offset = actors[b].offset
          /\ \E j \in 0 .. k - 1 :
                L.objects_by_id[q].coords
                    = Ahead(L.objects_by_id[b].coords, actors[b].offset, j)

\* C20: a team whose line reaches a wall gives up the waiting objects
\* between its starting pusher and the wall: another team that pushes one
\* of them another way moves with it, and the pusher facing the wall
\* stays.
C20_WallTeamGivesUpClaim ==
    status = "ok" =>
        \A actors \in PushTurns(Self) :
            TwoWays(actors) =>
                \A a, b \in PushersOf(actors) :
                    \A na \in 2 .. Reach(Self) :
                        ClearLine(Self, actors, a, na) =>
                            \A k \in 2 .. Reach(Self) :
                                \A x \in DOMAIN objects_by_id :
                                    StealsFrom(Self, actors, a, na, b, k, x)
                                    => \A out \in update(Self, actors) :
                                          MovesExactly(Self, out,
                                              Members(Self, actors, a, na),
                                              actors[a].offset)

\* An update in which a team took a crate from a pusher facing a wall
\* whose offset is the greater one.
C20_Witness ==
    \E L \in Before : \E actors \in PushTurns(L) :
        /\ TwoWays(actors)
        /\ \E a, b \in PushersOf(actors) :
              /\ Beats(actors[b].offset, actors[a].offset)
              /\ \E na, k \in 2 .. Reach(L) :
                    \E x \in DOMAIN L.objects_by_id :
                        /\ StealsFrom(L, actors, a, na, b, k, x)
                        /\ \E out \in update(L, actors) :
                              /\ ret = Some(out.change)
                              /\ LevelEq(out.L, Self)
\* q is the first pusher after the waiting object x in the line of nb
\* objects from pusher b.
FirstPusherAfter(L, actors, b, nb, x, q) ==
    /\ q \in PushersOf(actors)
    /\ \E j \in 1 .. nb - 1 :
          /\ L.objects_by_id[q].coords
                = Ahead(L.objects_by_id[b].coords, actors[b].offset, j)
          /\ \E i \in 1 .. j - 1 :
                L.objects_by_id[x].coords
                    = Ahead(L.objects_by_id[b].coords, actors[b].offset, i)
          /\ \A i \in 1 .. j - 1 :
                ObjectAhead(L, actors, b, i) \in PushersOf(actors) =>
                    \E h \in i + 1 .. j - 1 :
                        L.objects_by_id[x].coords
                            = Ahead(L.objects_by_id[b].coords,
                                    actors[b].offset, h)

\* C21: when a team is cut by a team of higher priority, the first pusher
\* of its line after the contested object is resolved on the strength of
\* its own line: it moves with the objects ahead of it if that strength
\* stays at or above zero, and stays where it is otherwise.
C21_UncutSubteamOnOwnStrength ==
    status = "ok" =>
        \A actors \in PushTurns(Self) :
            TwoWays(actors) =>
                \A a, b \in PushersOf(actors) :
                    \A na \in 2 .. Reach(Self) :
                        ClearLine(Self, actors, a, na) =>
                            \A nb \in 3 .. Reach(Self) :
                                \A x \in DOMAIN objects_by_id :
                                    (/\ ClaimSame(Self, actors, a, na, b, nb, x)
                                     /\ HasPriority(Self, actors, a, na, b, nb))
                                    => \A q \in PushersOf(actors) :
                                        FirstPusherAfter(Self, actors, b, nb,
                                                         x, q) =>
                                        \A out \in update(Self, actors) :
                                          /\ \A nq \in 1 .. nb :
                                                ClearLine(Self, actors, q, nq)
                                                => \A m \in Members(Self,
                                                        actors, q, nq) :
                                                     StepsBy(Self, out, m,
                                                         actors[q].offset)
                                          /\ \A k \in 1 .. nb :
                                                OutOfStrengthAt(Self, actors,
                                                                q, k)
                                                => StaysPut(Self, out, q)

\* The last update cut a team whose first pusher after the contested
\* object went on with the objects ahead of it.
C21_Witness ==
    \E L \in Before : \E actors \in PushTurns(L) :
        /\ TwoWays(actors)
        /\ \E a, b, q \in PushersOf(actors) : \E na, nb \in 2 .. Reach(L) :
              /\ \E x \in DOMAIN L.objects_by_id :
                    /\ ClaimSame(L, actors, a, na, b, nb, x)
                    /\ FirstPusherAfter(L, actors, b, nb, x, q)
              /\ HasPriority(L, actors, a, na, b, nb)
              /\ \E nq \in 2 .. nb : ClearLine(L, actors, q, nq)
              /\ \E out \in update(L, actors) :
                    /\ ret = Some(out.change)
                    /\ LevelEq(out.L, Self)

\* The last update cut a team whose first pusher after the contested
\* object was too weak for the objects ahead of it.
C21_WitnessWeak ==
    \E L \in Before : \E actors \in PushTurns(L) :
        /\ TwoWays(actors)
        /\ \E a, b, q \in PushersOf(actors) : \E na, nb \in 2 .. Reach(L) :
              /\ \E x \in DOMAIN L.objects_by_id :
                    /\ ClaimSame(L, actors, a, na, b, nb, x)
                    /\ FirstPusherAfter(L, actors, b, nb, x, q)
              /\ HasPriority(L, actors, a, na, b, nb)
              /\ \E k \in 1 .. nb : OutOfStrengthAt(L, actors, q, k)
              /\ \E out \in update(L, actors) :
                    /\ ret = Some(out.change)
                    /\ LevelEq(out.L, Self)

-----------------------------------------------------------------------------
(* Claims about the return phase and the summon phase.                     *)

\* The actor lists in which every character pushes, waits or returns.
ReturnTurns(L) == [L.character_ids -> ReturnActions]

\* Character id stands on the cell its portal_coords names.
OnOwnPortal(L, id) ==
    character_by_id(L, id).portal_coords = Some(L.objects_by_id[id].coords)

\* The characters that return in actors.
ReturnersOf(actors) == {id \in DOMAIN actors : actors[id].kind = "Return"}

\* C22: a Return takes effect exactly when the character's portal_coords is
\* set and equals its coords at the start of the turn. A Return by a
\* character without a portal or on another cell gives no returning and
\* leaves the character as it was (its place too, unless a push of the same
\* turn moves it); a turn whose Returns all fail changes no tile.
C22_ReturnOnlyOnOwnPortal ==
    status = "ok" =>
        \A actors \in ReturnTurns(Self) :
            \A out \in update(Self, actors) :
                (~out.panic /\ ~out.hang) =>
                    /\ DOMAIN out.change.returnings
                         = {id \in ReturnersOf(actors) : OnOwnPortal(Self, id)}
                    /\ \A id \in ReturnersOf(actors) :
                          ~OnOwnPortal(Self, id) =>
                             /\ id \in out.L.character_ids
                             /\ id \in DOMAIN out.L.objects_by_id
                             /\ out.L.objects_by_id[id].object
                                  = objects_by_id[id].object
                             /\ id \notin DOMAIN out.change.moves
                                  => out.L.objects_by_id[id]
                                        = objects_by_id[id]
                    /\ (\A id \in ReturnersOf(actors) : ~OnOwnPortal(Self, id))
                          => out.L.tiles = tiles

\* The last update took a Return of a character that stood on its portal.
C22_Witness ==
    /\ lastOp = "update"
    /\ status = "ok"
    /\ ret # None
    /\ DOMAIN Unwrap(ret).returnings # {}

\* The last update took a Return of a character that had left its portal.
C22_WitnessOffPortal ==
    \E L \in Before : \E actors \in ReturnTurns(L) :
        /\ \E id \in ReturnersOf(actors) :
              /\ character_by_id(L, id).portal_coords # None
              /\ ~OnOwnPortal(L, id)
        /\ \E out \in update(L, actors) :
              /\ ret = Some(out.change)
              /\ LevelEq(out.L, Self)

\* The last update took a Return of a character that has no portal.
C22_WitnessNoPortal ==
    \E L \in Before : \E actors \in ReturnTurns(L) :
        /\ \E id \in ReturnersOf(actors) :
              character_by_id(L, id).portal_coords = None
        /\ \E out \in update(L, actors) :
              /\ ret = Some(out.change)
              /\ LevelEq(out.L, Self)

\* The change the last update or redo applied.
Applied ==
    IF lastOp \in {"update", "redo"} /\ status = "ok" /\ ret # None
    THEN {Unwrap(ret)}
    ELSE {}

\* The returner of a returning is gone from the object table, from the
\* coordinate index and from the character ids.
ReturnerGone(returning) ==
    /\ returning.returner.id \notin DOMAIN objects_by_id
    /\ returning.returner.id \notin Range(object_ids_by_coords)
    /\ returning.returner.id \notin character_ids

\* C23: after an update (or a redo) that applied a returning, the returner
\* is absent from objects_by_id, from the coordinate index and from
\* character_ids, and the tile it stood on is Floor with no portal colour.
C23_ReturnAllOrNothing ==
    \A change \in Applied :
        \A id \in DOMAIN change.returnings :
            /\ ReturnerGone(change.returnings[id])
            /\ tile_at(Self, change.returnings[id].returner.coords)
                 = Floor(None)

\* C23 amended: the same, the tile being Floor with no portal colour unless
\* a summoning of the same turn spawned on the vacated cell, in which case
\* it carries the portal colour of that summoning and never the returner's.
C23_ReturnClosesOwnPortal ==
    \A change \in Applied :
        \A id \in DOMAIN change.returnings :
            LET cell == change.returnings[id].returner.coords
                opened == {s \in DOMAIN change.summonings :
                              change.summonings[s].summon.coords = cell}
            IN /\ ReturnerGone(change.returnings[id])
               /\ opened = {} => tile_at(Self, cell) = Floor(None)
               /\ \A s \in opened :
                     /\ tile_at(Self, cell)
                          = Floor(Some(change.summonings[s].portal_color))
                     /\ change.summonings[s].portal_color
                          # change.returnings[id].returner.character.color

\* The last update applied a returning and no summoning.
C23_Witness ==
    \E change \in Applied :
        /\ lastOp = "update"
        /\ DOMAIN change.returnings # {}
        /\ DOMAIN change.summonings = {}

\* The last update applied a returning and a summoning onto the vacated
\* cell.
C23_WitnessSummonedOnto ==
    \E change \in Applied :
        \E r \in DOMAIN change.returnings :
            \E s \in DOMAIN change.summonings :
                change.summonings[s].summon.coords
                    = change.returnings[r].returner.coords

\* The characters that summon in actors.
SummonersOf(actors) == {id \in DOMAIN actors : actors[id].kind = "Summon"}

\* The cells on which the summonings of change spawn.
SpawnCells(change) ==
    {change.summonings[s].summon.coords : s \in DOMAIN change.summonings}

InGrid(L, coords) ==
    /\ coords.row >= 0 /\ coords.row < L.height
    /\ coords.col >= 0 /\ coords.col < L.width

\* coords was open when the summon phase of the update with outcome out
\* began: an in-grid Floor tile without portal that held no object. The
\* summon phase changes the cells it spawns on and no other.
OpenForSummon(out, coords) ==
    /\ InGrid(out.L, coords)
    /\ \/ coords \in SpawnCells(out.change)
       \/ /\ tile_at(out.L, coords) = Floor(None)
          /\ coords \notin DOMAIN out.L.object_ids_by_coords

\* The distances from summoner id along offset at which a cell was open.
OpenSteps(out, id, offset) ==
    {k \in 1 .. Reach(out.L) :
        OpenForSummon(out, Ahead(out.L.objects_by_id[id].coords, offset, k))}

BeforeSummon ==
    {[L EXCEPT !.next_object_id = n] :
        L \in Before, n \in 0 .. next_object_id}

\* A cell between summoner and spawn cell, in the level before the update.
Passed(L, summoning, offset, P(_)) ==
    \E k \in 1 .. Reach(L) :
        LET cell == Ahead(L.objects_by_id[summoning.linked_id].coords,
                          offset, k)
        IN /\ InGrid(L, cell)
           /\ \E j \in k + 1 .. Reach(L) :
                 summoning.summon.coords
                    = Ahead(L.objects_by_id[summoning.linked_id].coords,
                            offset, j)
           /\ P(cell)

C24_WitnessPastPortal ==
    \E L \in BeforeSummon : \E actors \in Actors(L) :
        /\ \E out \in update(L, actors) :
              /\ ret = Some(out.change)
              /\ LevelEq(out.L, Self)
              /\ out.L.next_object_id = next_object_id
        /\ PushersOf(actors) = {} /\ ReturnersOf(actors) = {}
        /\ \E id \in SummonersOf(actors) :
              /\ id \in DOMAIN Unwrap(ret).summonings
              /\ Passed(L, Unwrap(ret).summonings[id], actors[id].offset,
                        LAMBDA cell :
                          /\ tile_at(L, cell).kind = "Floor"
                          /\ tile_at(L, cell).portal_color # None
                          /\ cell \notin DOMAIN L.object_ids_by_coords)

\* The last update took a Summon that found no open cell.
C24_WitnessNoOpenTile ==
    \E L \in BeforeSummon : \E actors \in Actors(L) :
        /\ \E out \in update(L, actors) :
              /\ ret = Some(out.change)
              /\ LevelEq(out.L, Self)
              /\ out.L.next_object_id = next_object_id
              /\ \E id \in SummonersOf(actors) :
                    OpenSteps(out, id, actors[id].offset) = {}

\* The colours no live character used when the summon phase of the update
\* with outcome out began: the characters of out.L that the update did not
\* spawn are the characters of that moment.
UnusedBeforeSummons(out) ==
    LET spawned == {out.change.summonings[s].summon.id :
                       s \in DOMAIN out.change.summonings}
    IN {color \in 0 .. COUNT - 1 :
           \A id \in out.L.character_ids \ spawned :
               character_by_id(out.L, id).color # color}

\* The colours of the characters that the summonings of change spawn.
SpawnedColors(change) ==
    {change.summonings[s].summon.character.color :
        s \in DOMAIN change.summonings}

\* colors are the n lowest of the set unused.
LowestOf(colors, unused, n) ==
    /\ colors \subseteq unused
    /\ Cardinality(colors) = n
    /\ \A c \in colors : \A u \in unused \ colors : c < u

\* C25: the summons of a turn give the spawned characters the lowest
\* colours that no live character uses at the start of the summon phase,
\* one successful summon the lowest of them; this holds also when several
\* characters summon and one of them finds no destination.
C25_SummonTakesLowestColor ==
    status = "ok" =>
        \A actors \in Turns(Self) :
            \A out \in update(Self, actors) :
                (~out.panic /\ ~out.hang /\ SummonsDisjoint(out.change)) =>
                    LowestOf(SpawnedColors(out.change),
                             UnusedBeforeSummons(out),
                             Cardinality(DOMAIN out.change.summonings))

\* The same for the turns in which every summoner finds a destination.
C25_LowestColorWhenAllSummon ==
    status = "ok" =>
        \A actors \in Turns(Self) :
            \A out \in update(Self, actors) :
                (/\ ~out.panic /\ ~out.hang /\ SummonsDisjoint(out.change)
                 /\ DOMAIN out.change.summonings = SummonersOf(actors)) =>
                    LowestOf(SpawnedColors(out.change),
                             UnusedBeforeSummons(out),
                             Cardinality(DOMAIN out.change.summonings))

\* C26: after a successful summon by character S the spawned character has
\* an id that no object had before and no other spawned character has,
\* portal_coords unset and sliding false, and stands on the cell of the
\* Summoning; the tile under it is Floor with S's colour as portal colour;
\* S's portal_coords is that cell; the linked_id of the Summoning is S.
C26_SummonLinksSummonerAndPortal ==
    status = "ok" =>
        \A actors \in Turns(Self) :
            SummonersOf(actors) # {} =>
            \A out \in update(Self, actors) :
                (~out.panic /\ ~out.hang /\ SummonsDisjoint(out.change)) =>
                    \A s \in DOMAIN out.change.summonings :
                        LET summoning == out.change.summonings[s]
                            summon == summoning.summon
                        IN /\ s \in SummonersOf(actors)
                           /\ summoning.linked_id = s
                           /\ summon.id \notin DOMAIN objects_by_id
                           /\ \A t \in DOMAIN out.change.summonings \ {s} :
                                 out.change.summonings[t].summon.id
                                    # summon.id
                           /\ summon.id \in out.L.character_ids
                           /\ summon.id \in DOMAIN out.L.objects_by_id
                           /\ out.L.objects_by_id[summon.id]
                                = ObjectOfCharacter(summon)
                           /\ out.L.object_ids_by_coords[summon.coords]
                                = summon.id
                           /\ summon.character.portal_coords = None
                           /\ summon.character.sliding = FALSE
                           /\ tile_at(out.L, summon.coords)
                                = Floor(Some(character_by_id(Self, s).color))
                           /\ character_by_id(out.L, s).portal_coords
                                = Some(summon.coords)

\* The last update spawned a character whose summoner is linked to the
\* portal under it.
C26_Witness ==
    /\ lastOp = "update"
    /\ status = "ok"
    /\ ret # None
    /\ \E s \in DOMAIN Unwrap(ret).summonings :
          /\ s \in character_ids
          /\ Unwrap(ret).summonings[s].summon.id \in character_ids
          /\ character_by_id(Self, s).portal_coords
               = Some(Unwrap(ret).summonings[s].summon.coords)

\* Every colour is the colour of a live character of L.
ColorsExhausted(L) == AvailableColorSet(L) = {}

\* C27: if all eight colours are in use by live characters when a character
\* issues Summon, update panics.
C27_ExhaustedColorsPanic ==
    status = "ok" =>
        \A actors \in OneActs(Self) :
            (SummonersOf(actors) # {} /\ ColorsExhausted(Self)) =>
                \A out \in update(Self, actors) : out.panic

\* What update does instead: with all eight colours in use a Summon is
\* dropped; update returns a Change without summoning, and the level is as
\* it was but for the history.
C27_ExhaustedSummonIsDropped ==
    status = "ok" =>
        \A actors \in OneActs(Self) :
            (SummonersOf(actors) # {} /\ ColorsExhausted(Self)) =>
                \A out \in update(Self, actors) :
                    /\ ~out.panic
                    /\ ~out.hang
                    /\ out.change = EmptyChange
                    /\ LevelEq(out.L, Self)
                    /\ out.L.next_object_id = next_object_id

\* The characters that a change names: its returners and its summons.
CharactersOf(change) ==
    {change.returnings[r].returner : r \in DOMAIN change.returnings}
        \cup {change.summonings[s].summon : s \in DOMAIN change.summonings}

\* The characters that the history names, in either direction.
Recorded(hist) ==
    UNION {CharactersOf(hist[i].forward) \cup CharactersOf(hist[i].reverse) :
              i \in DOMAIN hist}

\* Every id of a live or recorded object has been handed out, and an id
\* stands for one character: the records of an id and the live object of
\* that id agree on the colour.
IdsStandForOneObject(objs, hist, next) ==
    /\ \A id \in DOMAIN objs : id < next /\ objs[id].id = id
    /\ \A c \in Recorded(hist) :
          /\ c.id < next
          /\ \A d \in Recorded(hist) :
                c.id = d.id => c.character.color = d.character.color
          /\ c.id \in DOMAIN objs =>
                /\ IsCharacter(objs[c.id].object)
                /\ objs[c.id].object.character.color = c.character.color

\* One step of update, undo or redo keeps the ids apart: the counter does
\* not decrease, an update gives its summons the ids from the old counter
\* up to the new one, each once, undo and redo bring back only objects that
\* the history records under their id, and no live object changes its kind
\* or colour.
IdsStep ==
    /\ next_object_id' >= next_object_id
    /\ (lastOp' = "update" /\ status' = "ok") =>
          LET summonings == Unwrap(ret').summonings
          IN /\ \A s \in DOMAIN summonings :
                   /\ summonings[s].summon.id >= next_object_id
                   /\ summonings[s].summon.id < next_object_id'
                   /\ \A t \in DOMAIN summonings \ {s} :
                         summonings[t].summon.id # summonings[s].summon.id
             /\ \A id \in DOMAIN objects_by_id' \ DOMAIN objects_by_id :
                   \E s \in DOMAIN summonings : summonings[s].summon.id = id
    /\ (lastOp' \in {"undo", "redo"} /\ status' = "ok") =>
          \A id \in DOMAIN objects_by_id' \ DOMAIN objects_by_id :
              \E c \in Recorded(history) :
                  /\ c.id = id
                  /\ objects_by_id'[id].object = CharacterObject(c.character)
    /\ \A id \in DOMAIN objects_by_id' \cap DOMAIN objects_by_id :
          /\ objects_by_id'[id].object.kind = objects_by_id[id].object.kind
          /\ IsCharacter(objects_by_id[id].object) =>
                objects_by_id'[id].object.character.color
                    = objects_by_id[id].object.character.color
    /\ status' = "ok" =>
          IdsStandForOneObject(objects_by_id', history', next_object_id')

\* C28: object ids are handed out in increasing order and never reused
\* across update, undo and redo: next_object_id never decreases, each id a
\* summon hands out is at or above the counter of every earlier moment
\* (so above every id handed out before), and an id that a Return or the
\* undo of a summon has freed comes back only with the object it stood for.
C28_IdsNeverReused == [][IdsStep]_vars

\* The last update spawned a character while a lower id was free.
C28_Witness ==
    /\ lastOp = "update"
    /\ status = "ok"
    /\ ret # None
    /\ \E s \in DOMAIN Unwrap(ret).summonings :
          \E id \in 0 .. Unwrap(ret).summonings[s].summon.id - 1 :
              id \notin DOMAIN objects_by_id

\* The last undo took back a summon: the id of the summoned character is
\* free and below the counter.
C28_WitnessUndoneSummon ==
    /\ lastOp = "undo"
    /\ status = "ok"
    /\ ret # None
    /\ \E r \in DOMAIN Unwrap(ret).returnings :
          /\ Unwrap(ret).returnings[r].returner.id \notin DOMAIN objects_by_id
          /\ Unwrap(ret).returnings[r].returner.id < next_object_id

\* C29: no two live characters have the same colour, in every state
\* reachable by update, undo and redo from a level whose characters have
\* distinct colours.
C29_LiveColorsDistinct ==
    \A a, b \in character_ids :
        a # b => character_by_id(Self, a).color # character_by_id(Self, b).color

\* The last update removed a returner and spawned a character that took
\* the returner's colour.
C29_Witness ==
    /\ lastOp = "update"
    /\ status = "ok"
    /\ ret # None
    /\ \E r \in DOMAIN Unwrap(ret).returnings :
          \E s \in DOMAIN Unwrap(ret).summonings :
              /\ Unwrap(ret).summonings[s].summon.character.color
                   = Unwrap(ret).returnings[r].returner.character.color
              /\ Unwrap(ret).summonings[s].summon.id \in character_ids

\* The last undo brought a returner back among other live characters.
C29_WitnessAfterUndo ==
    /\ lastOp = "undo"
    /\ status = "ok"
    /\ ret # None
    /\ DOMAIN Unwrap(ret).summonings # {}
    /\ Cardinality(character_ids) >= 2

-----------------------------------------------------------------------------
(* Claims about the strength of a team.                                    *)

\* The pushers map that update builds from actors.
PushersMap(actors) == [id \in PushersOf(actors) |-> actors[id].offset]

\* The objects of a team after its backmost pusher.
InLine(L, team) ==
    {L.object_ids_by_coords[Ahead(team.start, team.offset, k)] :
        k \in 1 .. team.count - 1}

\* The objects of a team, after its backmost pusher, that push its way.
PushersInLine(L, actors, team) ==
    {id \in InLine(L, team) \cap PushersOf(actors) :
        actors[id].offset = team.offset}

RECURSIVE SumOfWeights(_, _)
SumOfWeights(L, ids) ==
    IF ids = {} THEN 0
    ELSE LET id == CHOOSE x \in ids : TRUE
         IN weight(L.objects_by_id[id].object) + SumOfWeights(L, ids \ {id})

\* The strength of every team that team construction leaves non-blocked is
\* 1, plus 2 for every further pusher of its line that pushes its way, less
\* the weights of the objects of its line: of all of them after the
\* backmost pusher (withPushers) or of those that are not such pushers.
TeamStrengthIs(withPushers) ==
    status = "ok" =>
        \A actors \in PushTurns(Self) :
            \A p \in PushersOf(actors) :
                LET built == TeamOf(Self, PushersMap(actors), p)
                    team == built.team
                    with == PushersInLine(Self, actors, team)
                    weighed == IF withPushers THEN InLine(Self, team)
                               ELSE InLine(Self, team) \ with
                IN (~built.panic /\ ~team.blocked) =>
                       team.strength = 1 + 2 * Cardinality(with)
                                         - SumOfWeights(Self, weighed)

-----------------------------------------------------------------------------
(* Claims about the moves of a Change.                                     *)

\* The moves of change go to pairwise different cells, and each of these
\* cells is free in L or held by an object that moves in change as well.
IntoFreeCells(L, change) ==
    /\ \A a, b \in DOMAIN change.moves :
          a # b => change.moves[a].to_coords # change.moves[b].to_coords
    /\ \A a \in DOMAIN change.moves :
          change.moves[a].to_coords \in DOMAIN L.object_ids_by_coords =>
              L.object_ids_by_coords[change.moves[a].to_coords]
                  \in DOMAIN change.moves

\* C31: in every Change that update produces the destination cells of the
\* moves are pairwise distinct, and each of them is unoccupied before the
\* push phase or occupied by an object that moves in the same Change; a
\* team stopped at an orthogonal pusher moves only if that pusher vacates
\* its cell, also when the team of the orthogonal pusher was cut.
C31_MovesIntoFreeCells ==
    status = "ok" =>
        \A actors \in PushTurns(Self) :
            \A out \in update(Self, actors) :
                (~out.panic /\ ~out.hang) => IntoFreeCells(Self, out.change)

\* The same for the turns in which no two pushers push different ways.
C31_OneWayMovesIntoFreeCells ==
    status = "ok" =>
        \A actors \in PushTurns(Self) :
            SameWay(actors) =>
                \A out \in update(Self, actors) :
                    (~out.panic /\ ~out.hang) =>
                        IntoFreeCells(Self, out.change)

\* Object id stands in the unbroken line of objects ahead of pusher p, or
\* is p itself.
InLineOfPusher(L, actors, p, id) ==
    \/ id = p
    \/ \E k \in 1 .. Reach(L) :
          /\ L.objects_by_id[id].coords
               = Ahead(L.objects_by_id[p].coords, actors[p].offset, k)
          /\ \A j \in 1 .. k - 1 :
                ObjectsAt(L, Ahead(L.objects_by_id[p].coords,
                                   actors[p].offset, j)) # {}

\* C32: every move of a Change that update produces takes its object from
\* where it stood exactly one cell further, by the offset of a Push issued
\* this turn by a pusher that is the object itself or has it in the unbroken
\* line of objects ahead; no object moves without such a pusher, and every
\* object ends one step from where it stood or where it stood.
C32_MovesFollowAPusher ==
    status = "ok" =>
        \A actors \in PushTurns(Self) :
            \A out \in update(Self, actors) :
                (~out.panic /\ ~out.hang) =>
                    /\ \A id \in DOMAIN out.change.moves :
                          LET mv == out.change.moves[id]
                          IN /\ id \in DOMAIN objects_by_id
                             /\ mv.from_coords = objects_by_id[id].coords
                             /\ out.L.objects_by_id[id].coords = mv.to_coords
                             /\ \E p \in PushersOf(actors) :
                                   /\ mv.to_coords
                                        = AddOffset(mv.from_coords,
                                                    actors[p].offset)
                                   /\ mv.to_angle = Angle(actors[p].offset)
                                   /\ InLineOfPusher(Self, actors, p, id)
                    /\ \A id \in DOMAIN objects_by_id \ DOMAIN out.change.moves :
                          out.L.objects_by_id[id] = objects_by_id[id]

\* The last update moved an object that is no pusher, with an object
\* between it and the pusher.
C32_Witness ==
    \E L \in Before : \E actors \in PushTurns(L) :
        /\ \E out \in update(L, actors) :
              /\ ret = Some(out.change)
              /\ LevelEq(out.L, Self)
        /\ \E p \in PushersOf(actors) :
              \E id \in DOMAIN Unwrap(ret).moves \ PushersOf(actors) :
                  /\ L.objects_by_id[id].coords
                       = Ahead(L.objects_by_id[p].coords, actors[p].offset, 2)
                  /\ Unwrap(ret).moves[id].to_coords
                       = Ahead(L.objects_by_id[p].coords, actors[p].offset, 3)

-----------------------------------------------------------------------------
(* Claims about the history.                                               *)

\* The reverse of a change, as the claim words it: every move with from and
\* to swapped, every summoning as the returning of its summon, and every
\* returning as the summoning of its returner under its own colour.
Backwards(change) ==
    [returnings |->
        [id \in DOMAIN change.summonings |->
            [returner |-> change.summonings[id].summon,
             linked_id |-> change.summonings[id].linked_id]],
     moves |->
        [id \in DOMAIN change.moves |->
            [from_coords |-> change.moves[id].to_coords,
             to_coords |-> change.moves[id].from_coords,
             from_angle |-> change.moves[id].to_angle,
             to_angle |-> change.moves[id].from_angle]],
     summonings |->
        [id \in DOMAIN change.returnings |->
            [summon |-> change.returnings[id].returner,
             linked_id |-> change.returnings[id].linked_id,
             portal_color |->
                change.returnings[id].returner.character.color]]]

\* One step of the driver, as far as the history goes.
ReplayStep ==
    /\ (lastOp' = "update" /\ status' = "ok") =>
          /\ Len(history') >= 1
          /\ history'[Len(history')].forward = Unwrap(ret')
    /\ lastOp' = "undo" =>
          /\ history' = history
          /\ ret' # None =>
                /\ turn >= 1
                /\ Unwrap(ret') = history[turn].reverse
                /\ Unwrap(ret') = Backwards(history[turn].forward)
    /\ lastOp' = "redo" =>
          /\ history' = history
          /\ ret' # None =>
                /\ turn < Len(history)
                /\ Unwrap(ret') = history[turn + 1].forward

\* C33: redo returns the forward change that the update which made the
\* history entry returned, undo returns its reverse (every move with from
\* and to swapped, every summoning as a returning, every returning as a
\* summoning), and neither undo nor redo changes the history.
C33_UndoRedoReplayHistory == [][ReplayStep]_vars

\* The last undo took back a turn that had a move and a summoning.
C33_Witness ==
    /\ lastOp = "undo"
    /\ status = "ok"
    /\ ret # None
    /\ DOMAIN Unwrap(ret).moves # {}
    /\ DOMAIN Unwrap(ret).returnings # {}

\* The last redo replayed a turn that had a returning.
C33_WitnessRedo ==
    /\ lastOp = "redo"
    /\ status = "ok"
    /\ ret # None
    /\ DOMAIN Unwrap(ret).returnings # {}

-----------------------------------------------------------------------------
(* Claims about what update, undo and redo leave alone.                    *)

\* The objects of the table that are no characters, as (id, kind).
NonCharacters(objs) ==
    {<<id, objs[id].object.kind>> :
        id \in {i \in DOMAIN objs : ~IsCharacter(objs[i].object)}}

\* The characters of the table.
CharactersIn(objs) == {id \in DOMAIN objs : IsCharacter(objs[id].object)}

\* One step of the driver keeps the objects that are no characters, and
\* changes the number of characters by the summonings less the returnings
\* of the change it applied.
ObjectsStep ==
    /\ NonCharacters(objects_by_id') = NonCharacters(objects_by_id)
    /\ status' = "ok" =>
          LET applied == IF ret' = None THEN EmptyChange ELSE Unwrap(ret')
          IN /\ Cardinality(character_ids')
                  = Cardinality(character_ids)
                      + Cardinality(DOMAIN applied.summonings)
                      - Cardinality(DOMAIN applied.returnings)
             /\ CharactersIn(objects_by_id') = character_ids'
             /\ \A id \in character_ids' \ character_ids :
                   \E s \in DOMAIN applied.summonings :
                       applied.summonings[s].summon.id = id
             /\ \A id \in character_ids \ character_ids' :
                   \E r \in DOMAIN applied.returnings :
                       applied.returnings[r].returner.id = id

\* C34: objects are created only by summonings and destroyed only by
\* returnings: across update, undo and redo the set of non-character
\* objects (id and kind) of objects_by_id never changes, and the number of
\* live characters changes by +1 for every applied summoning and -1 for
\* every applied returning.
C34_OnlySummonsAndReturnsChangeObjects == [][ObjectsStep]_vars

\* The last update applied a returning and a summoning at once, next to a
\* crate.
C34_Witness ==
    /\ lastOp = "update"
    /\ status = "ok"
    /\ ret # None
    /\ DOMAIN Unwrap(ret).returnings # {}
    /\ DOMAIN Unwrap(ret).summonings # {}
    /\ NonCharacters(objects_by_id) # {}

\* The last undo took a summoned character away again.
C34_WitnessUndo ==
    /\ lastOp = "undo"
    /\ status = "ok"
    /\ ret # None
    /\ \E r \in DOMAIN Unwrap(ret).returnings :
          Unwrap(ret).returnings[r].returner.id \notin character_ids

-----------------------------------------------------------------------------
(* Claims about the grid.                                                  *)

\* Tile new is tile old but for the portal colour of a floor tile.
SameButPortal(old, new) ==
    IF old.kind = "Floor" THEN new.kind = "Floor" ELSE new = old

\* One step of the driver keeps width and height, every wall and every
\* stairs.
GridStep ==
    /\ width' = width
    /\ height' = height
    /\ Len(tiles') = Len(tiles)
    /\ \A k \in 1 .. Len(tiles) : SameButPortal(tiles[k], tiles'[k])

\* C35: update, undo and redo never change the width or the height of the
\* grid and never change a Wall or Stairs tile: the only change of a tile is
\* the portal colour of a Floor tile being set or cleared.
C35_OnlyPortalColorsChange == [][GridStep]_vars

\* The last update opened a portal in a grid that has stairs: the scan of
\* the summoner went over the stairs.
C35_Witness ==
    /\ lastOp = "update"
    /\ status = "ok"
    /\ ret # None
    /\ \E s \in DOMAIN Unwrap(ret).summonings :
          LET to == Unwrap(ret).summonings[s].summon.coords
              from == objects_by_id[s].coords
          IN /\ tile_at(Self, to).kind = "Floor"
             /\ tile_at(Self, to).portal_color # None
             /\ from.row = to.row
             /\ from.col < to.col
             /\ tile_at(Self, Coords(to.row, to.col + 1)) = Stairs

\* The last step cleared the portal colour of a floor tile while a character
\* stood on the stairs.
C35_WitnessClear ==
    /\ lastOp \in {"update", "undo"}
    /\ status = "ok"
    /\ ret # None
    /\ \E r \in DOMAIN Unwrap(ret).returnings :
          tile_at(Self, Unwrap(ret).returnings[r].returner.coords)
              = Floor(None)
    /\ \E id \in character_ids :
          tile_at(Self, objects_by_id[id].coords) = Stairs

-----------------------------------------------------------------------------
(* Claims about the turn counter.                                          *)

TurnInHistory(t, hist) == 0 <= t /\ t <= Len(hist)

\* One step of the driver: an update that returned cut the history at the
\* turn and appended one entry; an undo or redo that returned a change
\* moved the turn by one and left the history alone; one that returned
\* None left both alone.
TurnStep ==
    /\ TurnInHistory(turn, history)
    /\ TurnInHistory(turn', history')
    /\ (lastOp' = "update" /\ status' = "ok") =>
          /\ Len(history') = turn + 1
          /\ SubSeq(history', 1, turn) = SubSeq(history, 1, turn)
          /\ turn' = Len(history')
    /\ (lastOp' = "undo" /\ status' = "ok") =>
          /\ history' = history
          /\ turn' = IF ret' # None THEN turn - 1 ELSE turn
    /\ (lastOp' = "redo" /\ status' = "ok") =>
          /\ history' = history
          /\ turn' = IF ret' # None THEN turn + 1 ELSE turn

\* C36: in every reachable state 0 <= turn <= history length; every update
\* call, also one that changes nothing, appends exactly one entry and
\* leaves turn = history length; a successful undo decrements turn by
\* exactly one and a successful redo increments it by exactly one.
C36_TurnStaysInHistory == [][TurnStep]_vars

\* The last update changed nothing and was recorded, after an undo.
C36_Witness ==
    /\ lastOp = "update"
    /\ status = "ok"
    /\ waited
    /\ ret = Some(EmptyChange)
    /\ dropped > 0
    /\ turn = Len(history)
    /\ history[turn].forward = EmptyChange

\* The last undo or redo returned a change with the turn inside the history.
C36_WitnessUndoRedo ==
    /\ lastOp \in {"undo", "redo"}
    /\ status = "ok"
    /\ ret # None
    /\ 0 < turn
    /\ turn < Len(history)

-----------------------------------------------------------------------------
(* Claims about portals and links.                                         *)

\* The live characters of colour c whose portal_coords is coords.
LinkedTo(L, coords, c) ==
    {id \in L.character_ids :
        /\ character_by_id(L, id).color = c
        /\ character_by_id(L, id).portal_coords = Some(coords)}

\* Tiles and links agree in L.
PortalsAgree(L) ==
    /\ \A r \in 0 .. L.height - 1 : \A col \in 0 .. L.width - 1 :
          \A c \in 0 .. COUNT - 1 :
              tile_at(L, Coords(r, col)) = Floor(Some(c))
                  <=> Cardinality(LinkedTo(L, Coords(r, col), c)) = 1
    /\ \A id \in L.character_ids :
          character_by_id(L, id).portal_coords # None =>
              LET at == Unwrap(character_by_id(L, id).portal_coords)
              IN /\ TileInBounds(L, at)
                 /\ tile_at(L, at)
                        = Floor(Some(character_by_id(L, id).color))

\* C37: in every state reachable by update, undo and redo, where Summon is
\* issued only for characters that can_summon and summon destinations are
\* disjoint, a tile carries portal colour c if and only if exactly one live
\* character has colour c and portal_coords equal to the coords of the
\* tile, and every live character with portal_coords set points at a Floor
\* tile that carries its own colour.
C37_PortalsAndLinksAgree == status = "ok" => PortalsAgree(Self)

\* The last update closed the portal of a returner and opened the portal
\* of a summoner, and two portals are open.
C37_Witness ==
    /\ status = "ok"
    /\ lastOp = "update"
    /\ ret # None
    /\ DOMAIN Unwrap(ret).returnings # {}
    /\ DOMAIN Unwrap(ret).summonings # {}
    /\ Cardinality({id \in character_ids :
                       character_by_id(Self, id).portal_coords # None}) >= 2

\* The last undo opened the portal of a returner again.
C37_WitnessUndo ==
    /\ status = "ok"
    /\ lastOp = "undo"
    /\ ret # None
    /\ \E s \in DOMAIN Unwrap(ret).summonings :
          LET back == Unwrap(ret).summonings[s].summon
          IN /\ back.id \in character_ids
             /\ character_by_id(Self, back.id).portal_coords
                    = Some(back.coords)

-----------------------------------------------------------------------------
(* Claims about where objects stand.                                       *)

\* No object of L stands on a wall or outside the grid, in the table and in
\* the index.
OffWalls(L) ==
    /\ \A id \in DOMAIN L.objects_by_id :
          /\ TileInBounds(L, L.objects_by_id[id].coords)
          /\ tile_at(L, L.objects_by_id[id].coords) # Wall
    /\ \A coords \in DOMAIN L.object_ids_by_coords :
          /\ TileInBounds(L, coords)
          /\ tile_at(L, coords) # Wall

\* Every cell of the boundary of the grid is a wall.
Walled(L) ==
    \A r \in 0 .. L.height - 1 : \A c \in 0 .. L.width - 1 :
        (r \in {0, L.height - 1} \/ c \in {0, L.width - 1})
            => tile_at(L, Coords(r, c)) = Wall

\* C38: starting from a level in which no object stands on a Wall tile and
\* every boundary cell is a Wall, no sequence of update, undo and redo puts
\* an object on a Wall tile or outside the grid.
C38_ObjectsStayOffWalls == Walled(Self) /\ OffWalls(Self)

\* The last update had one character push against a wall.
C38_Witness ==
    /\ lastOp = "update"
    /\ status = "ok"
    /\ \E L \in Before : \E id \in L.character_ids : \E o \in Offsets :
          /\ tile_at(L, AddOffset(L.objects_by_id[id].coords, o)) = Wall
          /\ \E out \in update(L, [i \in L.character_ids |->
                                      IF i = id THEN Push(o) ELSE Wait]) :
                out.L = Self

\* The last update summoned a character to the far side of a wall and of a
\* crate.
C38_WitnessSummon ==
    /\ lastOp = "update"
    /\ status = "ok"
    /\ ret # None
    /\ \E s \in DOMAIN Unwrap(ret).summonings :
          LET to == Unwrap(ret).summonings[s].summon.coords
              from == objects_by_id[s].coords
          IN /\ from.row = to.row
             /\ to.col < from.col
             /\ \E c \in to.col + 1 .. from.col - 1 :
                   tile_at(Self, Coords(to.row, c)) = Wall
             /\ \E c \in to.col + 1 .. from.col - 1 :
                   Coords(to.row, c) \in DOMAIN object_ids_by_coords

-----------------------------------------------------------------------------
(* Claims about the control system.                                        *)

\* The event sent, if any, is an action that the abilities of its actor
\* allow.
SentIsAllowed(event) ==
    /\ event.action.kind = "Summon" => event.abilities.can_summon
    /\ event.action.kind = "Return" => event.abilities.can_return

\* C39: the control system emits Action::Summon for the next actor only if
\* that actor's abilities.can_summon is true, and Action::Return only if
\* its abilities.can_return is true, for every interleaving of presses and
\* releases, an Undo or Redo pressed while the Act modifier is held
\* included.
C39_SendsOnlyAllowedActions == \A event \in sent : SentIsAllowed(event)

\* Action::Return is sent only for an actor that can return.
C39_ReturnOnlyIfCanReturn ==
    \A event \in sent :
        event.action.kind = "Return" => event.abilities.can_return

\* A Summon was sent for an actor that can summon, and a Return for one that
\* can return.
C39_WitnessSummon ==
    \E event \in sent :
        event.action.kind = "Summon" /\ event.abilities.can_summon

C39_WitnessReturn ==
    \E event \in sent :
        event.action.kind = "Return" /\ event.abilities.can_return
====
